---- MODULE Spec2Model ----
(***************************************************************************)
(* Model of the school portal's workflow layer:                            *)
(*   - registration approval / rejection (pages/Users.tsx),                *)
(*   - grade entry (the Grades page and the saveClassGrades utility),      *)
(*   - attendance marking and excusing (the Attendance page),              *)
(*   - the pure lateness and class-average computations,                   *)
(*   - the attendance rate and the grade-band classifiers,                 *)
(*   - bulk promotion of pupils (the Pupils page and promoteStudent),      *)
(*   - the AuthProvider's sign-in state.                                   *)
(* Each part has its own specification over the shared state; the steps of *)
(* one part leave the variables of the others unchanged.                   *)
(* Every await of a handler that touches stored data is one step, so       *)
(* handlers running in different browser sessions interleave.              *)
(***************************************************************************)
EXTENDS Integers, Sequences, FiniteSets, TLC

\* ---------------------------------------------------------------- bounds
MaxRegs == 1
MaxReasonLen == 1
MaxAudit == 2
MaxWrites == 2

\* browser sessions of signed-in admins
Admins == {"a1", "a2"}
Emails == {"e1", "e2"}
\* the role entered for an email, on the registration form (teacher or
\* parent) or in the admin's user form
RoleFor(e) == IF e = "e1" THEN "teacher" ELSE "parent"
Chars == {" ", "x"}
Teachers == {"t1", "t2"}
Pupils == {"p1", "p2"}
Subject == "s1"
Quarters == {1, 2}
GradeValues == {0, 80, 90}

\* ------------------------------------------------------------- variables
VARIABLES
  registrations,  \* table user_registrations: sequence of rows, id = index
  users,          \* table users (Accounts / profile rows)
  authUsers,      \* identity-provider credentials
  call,           \* per admin session: the handleApproveRegistration call
  rej,            \* the last reject call made with a blank reason, its outcome
  succeeded,      \* history: registrations some approve call succeeded on
  partial,        \* history: registrations whose profile step failed after
                  \*          the credential was created
  rejectedOk,     \* history: registrations a reject call succeeded on
  statusBefore,   \* history, per admin session: the status the registration
                  \*          had when the approve call began
  grades,         \* table grades
  auditLogs,      \* table audit_logs (grade and attendance entries), oldest first
  nextGid,        \* next grades.id
  gsave,          \* per teacher session: the Grades.saveClassGrades call
  saves,          \* history: grade saves completed per (pupil, subject, quarter)
  raced,          \* history: some grade save ran while another was in progress
  attendance,     \* table attendance
  notifications,  \* table notifications: the rows the page has sent, in order
  nextAid,        \* next attendance.id
  att,            \* per session: the markAttendance / handleExcuseAbsence call
  attWrites,      \* history: attendance upserts the store applied
  auditLost,      \* history: attendance audit inserts the store refused
  toast,          \* the toast shown last by an attendance call
  excuseModal,    \* per staff session: pupil of the open excuse dialog
  lateIn,         \* arguments given to the two lateness functions
  lateOut,        \* their results
  avgIn,          \* a pupil's final grades per quarter
  avgOut,         \* that pupil's row of calculateClassAverages
  rateIn,         \* counts given to calculateAttendanceRate
  rateOut,        \* its result
  bandIn,         \* score given to the grade classifiers
  bandOut,        \* their answers
  pupilRows,      \* table pupils: grade_level, section, archived per pupil
  promoModal,     \* the promotion dialog of the Pupils page
  promo,          \* the handlePromotePupils call, and what the last one did
  refusedAudits,  \* history: audit inserts of promotions and grade saves
                  \*          the store refused
  session,        \* AuthProvider state: the session's credential
  user,           \* AuthProvider state: the profile row
  clientSession,  \* the session the identity provider's client holds
  events,         \* auth events the client has not yet given to the listener
  signInCall,     \* the signIn call
  signOutCall,    \* the signOut call
  listenerCall,   \* the onAuthStateChange listener
  initCall,       \* initializeAuth
  switched        \* Attendance page sessions whose useAuth().user was replaced
                  \*   by a parent's profile while the page stayed open

regVars == <<registrations, users, authUsers, call, rej,
             succeeded, partial, rejectedOk, statusBefore>>
gradeVars == <<grades, auditLogs, nextGid, gsave, saves, raced>>
attVars == <<attendance, notifications, nextAid, att, toast, attWrites,
             auditLost, excuseModal>>
pureVars == <<lateIn, lateOut, avgIn, avgOut>>
calcVars == <<rateIn, rateOut, bandIn, bandOut>>
promoVars == <<pupilRows, promoModal, promo, refusedAudits>>
authVars == <<session, user, clientSession, events, signInCall, signOutCall,
              listenerCall, initCall>>
tabVars == <<switched>>
moreVars == <<calcVars, promoVars, authVars, tabVars>>
vars == <<regVars, gradeVars, attVars, pureVars, moreVars>>

\* ------------------------------------------------------------ registration
RegIds == 1..MaxRegs
Terminal == {"approved", "rejected"}

Reasons == UNION {[1..n -> Chars] : n \in 0..MaxReasonLen}

RECURSIVE TrimLeft(_)
TrimLeft(s) == IF s = <<>> THEN <<>>
               ELSE IF Head(s) = " " THEN TrimLeft(Tail(s)) ELSE s

RECURSIVE TrimRight(_)
TrimRight(s) == IF s = <<>> THEN <<>>
                ELSE IF s[Len(s)] = " " THEN TrimRight(SubSeq(s, 1, Len(s) - 1))
                ELSE s

\* String.prototype.trim
Trim(s) == TrimRight(TrimLeft(s))

\* faulty variant of IsBlank: the reason is not trimmed
IsBlankNoTrim(reason) == reason = <<>>
\* handleRejectRegistration: if (!reason.trim()) return
IsBlank(reason) == Trim(reason) = <<>>

AccountsIn(us, e) == {u \in us : u.email = e}
AccountsFor(e) == AccountsIn(users, e)
CredsFor(e) == {c \in authUsers : c.email = e}

Exists(r) == r \in 1..Len(registrations)

IdleCall == [pc |-> "idle", reg |-> 0, uid |-> "none", result |-> "none"]

NoRej == [blank |-> FALSE, result |-> "none", changed |-> FALSE]

StatusIn(regs, r) == IF r \in 1..Len(regs) THEN regs[r].status ELSE "none"
StatusOf(r) == StatusIn(registrations, r)
EmailIn(regs, r) == IF r \in 1..Len(regs) THEN regs[r].email ELSE "none"
EmailOf(r) == EmailIn(registrations, r)

\* handleRegister: check_email_availability, then insert with status 'pending'.
\* The availability answer comes from a stored procedure; it is an input.
Register(e, available) ==
  /\ Len(registrations) < MaxRegs
  /\ registrations' = IF available
                      THEN Append(registrations,
                                  [email |-> e, status |-> "pending",
                                   reason |-> <<>>])
                      ELSE registrations
  /\ UNCHANGED <<users, authUsers, call, rej, succeeded, partial,
                 rejectedOk, gradeVars, attVars, pureVars, moreVars, statusBefore>>

SignUpOutcomes == {"user", "error", "nouser"}

\* supabase.auth.signUp: the provider keeps one credential per email, whose id
\* stands for the email; for an email it already knows, a "user" answer carries
\* an obfuscated user object and no credential is added.
SignUpUserId(e) == IF CredsFor(e) = {} THEN e ELSE "obfuscated"
SignUpCreds(e, outcome) ==
  IF outcome = "user" /\ CredsFor(e) = {}
  THEN authUsers \cup {[id |-> e, email |-> e]}
  ELSE authUsers

\* stored procedure create_user_by_admin: inserts the profile row; an email
\* that already has a row is refused
CreateUserByAdmin(e, ok) == ok /\ AccountsFor(e) = {}

\* onSubmit, branch "create new user": auth.signUp, then create_user_by_admin,
\* then the row's id is set to the auth user's id
AdminCreateUser(e, outcome, ok) ==
  /\ authUsers' = SignUpCreds(e, outcome)
  /\ users' = IF outcome = "user" /\ CreateUserByAdmin(e, ok)
              THEN users \cup {[id |-> SignUpUserId(e), email |-> e,
                            role |-> RoleFor(e)]}
              ELSE users
  /\ UNCHANGED <<registrations, call, rej, succeeded, partial, rejectedOk,
                 gradeVars, attVars, pureVars, moreVars, statusBefore>>

\* pending -> under_review (the review step of the state machine)
BeginReview(r) ==
  /\ Exists(r)
  /\ registrations[r].status = "pending"
  /\ registrations' = [registrations EXCEPT ![r].status = "under_review"]
  /\ UNCHANGED <<users, authUsers, call, rej, succeeded, partial,
                 rejectedOk, gradeVars, attVars, pureVars, moreVars, statusBefore>>

\* stored procedure approve_user_registration: atomic check-and-transition
ApproveRpc(r) ==
  IF ~Exists(r)
  THEN [success |-> FALSE, error |-> "does not exist", already_exists |-> FALSE]
  ELSE IF registrations[r].status \in Terminal
  THEN [success |-> FALSE, error |-> "already processed", already_exists |-> FALSE]
  ELSE [success |-> TRUE, error |-> "",
        already_exists |-> AccountsFor(registrations[r].email) # {}]

ApproveRpcEffect(r) ==
  IF ApproveRpc(r).success
  THEN [registrations EXCEPT ![r].status = "approved"]
  ELSE registrations

\* catch block of handleApproveRegistration: what the admin is told
ClassifyError(msg) ==
  IF msg = "already processed" THEN "AlreadyProcessed"
  ELSE IF msg = "does not exist" THEN "NotFound"
  ELSE IF msg \in {"duplicate key", "already exists"} THEN "ReportedApproved"
  ELSE "Failed"

\* faulty variants of AfterRpc: the failure answer is not checked, the
\* already_exists answer is not checked, the revert also runs on a failure
AfterRpcIgnoreFailure(res) ==
  IF res.already_exists THEN "done" ELSE "signup"
AfterRpcIgnoreExisting(res) ==
  IF ~res.success THEN "done" ELSE "signup"
AfterRpcRevertOnFailure(res) ==
  IF ~res.success THEN "revert"
  ELSE IF res.already_exists THEN "done" ELSE "signup"
\* handleApproveRegistration after step 1: throw on failure, return early when
\* the account already exists, otherwise go on to auth.signUp
AfterRpc(res) ==
  IF ~res.success THEN "done"
  ELSE IF res.already_exists THEN "done" ELSE "signup"

RpcResult(res) ==
  IF ~res.success THEN ClassifyError(res.error)
  ELSE IF res.already_exists THEN "ApprovedExisting" ELSE "none"

Finish(c, result) == [c EXCEPT !.pc = "done", !.uid = "none", !.result = result]

\* handleApproveRegistration, step 1, but for the history variable
ApproveBegin(a, r) ==
  /\ call[a].pc = "idle"
  /\ LET res == ApproveRpc(r)
         c0 == [IdleCall EXCEPT !.reg = r]
         next == AfterRpc(res)
     IN /\ registrations' = ApproveRpcEffect(r)
        /\ call' = [call EXCEPT ![a] =
                      IF next = "done"
                      THEN Finish(c0, RpcResult(res))
                      ELSE [c0 EXCEPT !.pc = next]]
        /\ succeeded' = IF next = "done" /\ res.success
                        THEN succeeded \cup {r} ELSE succeeded
  /\ UNCHANGED <<users, authUsers, rej, partial, rejectedOk, gradeVars, attVars,
                 pureVars, moreVars>>

\* handleApproveRegistration, step 1
ApproveStart(a, r) == ApproveBegin(a, r) /\ UNCHANGED statusBefore

\* handleApproveRegistration, step 1, the registration's status at that
\* moment noted
ApproveStartNoted(a, r) ==
  /\ ApproveBegin(a, r)
  /\ statusBefore' = [statusBefore EXCEPT ![a] = StatusOf(r)]

\* handleApproveRegistration, step 2: authError -> revert and throw,
\* no user -> throw, otherwise go on to the profile step
AfterSignUp(outcome) ==
  IF outcome = "error" THEN "revert"
  ELSE IF outcome = "nouser" THEN "done" ELSE "profile"

\* handleApproveRegistration, step 2
ApproveSignUp(a, outcome) ==
  /\ call[a].pc = "signup"
  /\ LET r == call[a].reg
         e == EmailOf(r)
         next == AfterSignUp(outcome)
         c1 == [call[a] EXCEPT !.uid = IF outcome = "user" THEN SignUpUserId(e)
                                       ELSE "none"]
     IN /\ authUsers' = SignUpCreds(e, outcome)
        /\ call' = [call EXCEPT ![a] =
                      IF next = "done"
                      THEN Finish(c1, "Failed")
                      ELSE [c1 EXCEPT !.pc = next]]
  /\ UNCHANGED <<registrations, users, rej, succeeded, partial, rejectedOk,
                 gradeVars, attVars, pureVars, moreVars, statusBefore>>

RevertStatus == "pending"

\* handleApproveRegistration: update({status:'pending'}).eq('id', id), throw
ApproveRevert(a) ==
  /\ call[a].pc = "revert"
  /\ LET r == call[a].reg
     IN /\ registrations' = IF Exists(r)
                            THEN [registrations EXCEPT ![r].status = RevertStatus]
                            ELSE registrations
        /\ call' = [call EXCEPT ![a] = Finish(call[a], "Failed")]
  /\ UNCHANGED <<users, authUsers, rej, succeeded, partial,
                 rejectedOk, gradeVars, attVars, pureVars, moreVars, statusBefore>>

\* stored procedure create_user_profile_after_auth: inserts the profile row;
\* an email that already has a row is refused with a duplicate-key error
ProfileRpc(e, ok) ==
  IF AccountsFor(e) # {} THEN [success |-> FALSE, error |-> "duplicate key"]
  ELSE IF ok THEN [success |-> TRUE, error |-> ""]
  ELSE [success |-> FALSE, error |-> "profile failed"]

\* handleApproveRegistration, step 3
ApproveProfile(a, ok) ==
  /\ call[a].pc = "profile"
  /\ LET r == call[a].reg
         e == EmailOf(r)
         res == ProfileRpc(e, ok)
         accts == IF res.success
                  THEN users \cup {[id |-> call[a].uid, email |-> e,
                                role |-> RoleFor(e)]}
                  ELSE users
     IN /\ users' = accts
        /\ call' = [call EXCEPT ![a] =
                      Finish(call[a], IF res.success THEN "Approved"
                                      ELSE ClassifyError(res.error))]
        /\ succeeded' = IF res.success THEN succeeded \cup {r} ELSE succeeded
        /\ partial' = IF ~res.success /\ res.error = "profile failed"
                      THEN partial \cup {r} ELSE partial
  /\ UNCHANGED <<registrations, authUsers, rej, rejectedOk, gradeVars, attVars, pureVars, moreVars, statusBefore>>

\* handleApproveRegistration: finally { setIsLoading(false) }, the call is over
ApproveReturn(a) ==
  /\ call[a].pc = "done"
  /\ call' = [call EXCEPT ![a] = IdleCall]
  /\ statusBefore' = [statusBefore EXCEPT ![a] = "none"]
  /\ UNCHANGED <<registrations, users, authUsers, rej, succeeded,
                 partial, rejectedOk, gradeVars, attVars, pureVars, moreVars>>

\* stored procedure reject_user_registration
RejectRpc(r) ==
  IF ~Exists(r) THEN [success |-> FALSE, error |-> "does not exist"]
  ELSE IF registrations[r].status \in Terminal
  THEN [success |-> FALSE, error |-> "already processed"]
  ELSE [success |-> TRUE, error |-> ""]

\* handleRejectRegistration
Reject(r, reason) ==
  /\ LET blank == IsBlank(reason)
         res == RejectRpc(r)
         regs == IF ~blank /\ res.success
                 THEN [registrations EXCEPT ![r].status = "rejected",
                                            ![r].reason = reason]
                 ELSE registrations
     IN /\ registrations' = regs
        /\ rej' = IF Trim(reason) = <<>>
                  THEN [blank |-> TRUE,
                        result |-> IF blank THEN "ValidationError"
                                   ELSE IF res.success THEN "Rejected"
                                   ELSE ClassifyError(res.error),
                        changed |-> regs # registrations]
                  ELSE rej
        /\ rejectedOk' = IF ~blank /\ res.success
                         THEN rejectedOk \cup {r} ELSE rejectedOk
  /\ UNCHANGED <<users, authUsers, call, succeeded, partial, gradeVars, attVars, pureVars, moreVars, statusBefore>>

\* ------------------------------------------------- registration: claims
Started(a) == call[a].pc = "idle" /\ call'[a].pc # "idle"
Finishing(a) == call[a].pc # "done" /\ call'[a].pc = "done"
NoNewAccountOrCredential == users' = users /\ authUsers' = authUsers

\* C1: once an approve call on a registration has succeeded (and so its email
\* has an Account), every later approve call on that registration ends at
\* step 1 with AlreadyProcessed and creates no Account and no credential.
C1_RepeatedApproveFails ==
  [][/\ \A r \in succeeded' : AccountsIn(users', EmailIn(registrations', r)) # {}
     /\ \A a \in Admins :
          (Finishing(a) /\ call'[a].reg \in succeeded)
            => /\ call[a].pc = "idle"
               /\ call'[a].result = "AlreadyProcessed"
               /\ NoNewAccountOrCredential]_vars

C1_Witness ==
  \E a \in Admins : /\ call[a].pc = "done"
                    /\ call[a].result = "AlreadyProcessed"
                    /\ call[a].reg \in succeeded

\* C2: no email ever has two Accounts, and an approve whose registration's
\* email already has an Account answers alreadyExisted=true in its first step,
\* without creating a credential or an Account.
C2_OneAccountPerEmail ==
  [][/\ \A e \in Emails : Cardinality(AccountsIn(users', e)) <= 1
     /\ \A a \in Admins :
          LET r == call'[a].reg
          IN (/\ Started(a)
              /\ StatusOf(r) \in {"pending", "under_review"}
              /\ AccountsFor(EmailOf(r)) # {})
               => /\ call'[a].pc = "done"
                  /\ call'[a].result = "ApprovedExisting"
                  /\ StatusIn(registrations', r) = "approved"
                  /\ NoNewAccountOrCredential]_vars

C2_Witness ==
  \E a \in Admins : /\ call[a].pc = "done"
                    /\ call[a].result = "ApprovedExisting"
                    /\ Cardinality(AccountsFor(EmailOf(call[a].reg))) = 1

\* C3: whenever an approve call ends because identity creation failed (signUp
\* returned an error or returned no user), the registration is pending when
\* the call returns, no Account was created and the call reports a failure.
C3_IdentityFailureReverts ==
  [][\A a \in Admins :
       (call[a].pc \in {"signup", "revert"} /\ call'[a].pc = "done")
         => /\ StatusIn(registrations', call[a].reg) = "pending"
            /\ users' = users
            /\ call'[a].result = "Failed"]_vars

\* C4: whenever no approve call is in progress, every approved registration
\* has exactly one Account with its email.
C4_ApprovedHasAccount ==
  (\A a \in Admins : call[a].pc \in {"idle", "done"})
    => \A r \in 1..Len(registrations) :
         registrations[r].status = "approved"
           => Cardinality(AccountsFor(registrations[r].email)) = 1

\* C5: an approve call on a registration whose earlier approve created the
\* credential but failed to create the profile row ends with the profile row
\* (Account) in place.
C5_RetryLinksProfile ==
  [][\A a \in Admins :
       (Finishing(a) /\ call'[a].reg \in partial)
         => AccountsIn(users', EmailOf(call'[a].reg)) # {}]_vars

\* C6: a reject whose reason is empty or whitespace-only fails with
\* ValidationError and changes no registration; every rejected registration
\* carries a reason that is non-empty after trimming.
C6_RejectNeedsReason ==
  /\ rej.blank => (rej.result = "ValidationError" /\ ~rej.changed)
  /\ \A r \in 1..Len(registrations) :
       registrations[r].status = "rejected" => Trim(registrations[r].reason) # <<>>

C6_Witness ==
  /\ rej.result = "ValidationError"
  /\ \E r \in 1..Len(registrations) :
       registrations[r].status \in {"pending", "under_review"}

\* C7: a successful reject leaves the registration rejected for good, and
\* every later approve call on it ends at step 1 with AlreadyProcessed and
\* creates no Account and no credential.
C7_RejectIrreversible ==
  [][/\ \A r \in rejectedOk' : StatusIn(registrations', r) = "rejected"
     /\ \A a \in Admins :
          (Finishing(a) /\ call'[a].reg \in rejectedOk)
            => /\ call[a].pc = "idle"
               /\ call'[a].result = "AlreadyProcessed"
               /\ NoNewAccountOrCredential]_vars

C7_Witness ==
  \E a \in Admins : /\ call[a].pc = "done"
                    /\ call[a].result = "AlreadyProcessed"
                    /\ call[a].reg \in rejectedOk

\* C8 as stated: a status of approved or rejected is never changed again.
C8_TerminalNeverChanges ==
  [][\A r \in 1..Len(registrations) :
       registrations[r].status \in Terminal
         => registrations'[r].status = registrations[r].status]_vars

\* C8 amended: rejected is never changed; approved is never changed once an
\* approve call on the registration has succeeded; the only change of an
\* approved status is the revert to pending made by the approve call in
\* flight on that registration after signUp returned an error.
C8_TerminalExceptRevert ==
  [][\A r \in 1..Len(registrations) :
       /\ registrations[r].status = "rejected"
            => registrations'[r].status = "rejected"
       /\ (registrations[r].status = "approved" /\ r \in succeeded)
            => registrations'[r].status = "approved"
       /\ (registrations[r].status = "approved"
             /\ registrations'[r].status # "approved")
            => /\ registrations'[r].status = "pending"
               /\ \E a \in Admins : /\ call[a].pc = "revert"
                                    /\ call[a].reg = r
                                    /\ call'[a].pc = "done"]_vars

\* an approve was refused on the approved registration, which the approve call
\* in flight then reverted to pending
C8_Witness ==
  \E a, b \in Admins : /\ call[a].pc = "done"
                        /\ call[a].result = "Failed"
                        /\ StatusOf(call[a].reg) = "pending"
                        /\ call[b].pc = "done"
                        /\ call[b].result = "AlreadyProcessed"
                        /\ call[b].reg = call[a].reg

RegInit ==
  /\ registrations = <<>>
  /\ users = {}
  /\ authUsers = {}
  /\ call = [a \in Admins |-> IdleCall]
  /\ rej = NoRej
  /\ succeeded = {}
  /\ partial = {}
  /\ rejectedOk = {}
  /\ statusBefore = [a \in Admins |-> "none"]

\* ------------------------------------------------------------ grade entry
Null == -1
NoGrade == [id |-> 0, final_grade |-> Null]
GradeKey(p, q) == [pupil_id |-> p, subject_id |-> Subject, quarter |-> q]
GradeKeys == {GradeKey(p, q) : p \in Pupils, q \in Quarters}

\* classGrades / the grades argument: one entry per pupil, in entry order
ItemSeqs ==
  {items \in UNION {[1..n -> [pupil : Pupils, grade : GradeValues]] :
                      n \in 0..Cardinality(Pupils)} :
     \A i, j \in 1..Len(items) : i # j => items[i].pupil # items[j].pupil}

IdleSave == [pc |-> "idle", quarter |-> 0, todo |-> <<>>, existing |-> NoGrade,
             entry |-> <<>>, result |-> "none"]

RowsFor(gs, k) == {g \in gs : g.key = k}

\* faulty variant of KeyTaken: the table has no unique key
KeyTakenNever(gs, k) == FALSE
\* the unique key (pupil_id, subject_id, quarter) of table grades that the
\* upsert names as its conflict target
KeyTaken(gs, k) == RowsFor(gs, k) # {}

InProgress == {t \in Teachers : gsave[t].pc \in {"check", "write", "audit"}}

RECURSIVE SumLen(_)
SumLen(ts) == IF ts = {} THEN 0
              ELSE LET t == CHOOSE x \in ts : TRUE
                   IN Len(gsave[t].todo) + SumLen(ts \ {t})

\* audit rows still to be written by the calls in progress
Outstanding == SumLen(Teachers)

AuditEntry(action, entity, k, old, new) ==
  [action |-> action, entity_id |-> entity, key |-> k,
   old_values |-> old, new_values |-> new]

\* Grades.saveClassGrades: Object.entries(classGrades).filter(grade > 0)
GradesToSave(items) == SelectSeq(items, LAMBDA it : it.grade > 0)

\* Grades.saveClassGrades up to the loop
GradeSaveStart(t, q, items) ==
  /\ gsave[t].pc \in {"idle", "done"}
  /\ LET todo == GradesToSave(items)
     IN /\ Len(auditLogs) + Outstanding + Len(todo) <= MaxAudit
        /\ gsave' = [gsave EXCEPT ![t] =
                       IF todo = <<>>
                       THEN [IdleSave EXCEPT !.pc = "done", !.result = "saved"]
                       ELSE [IdleSave EXCEPT !.pc = "check", !.quarter = q,
                                             !.todo = todo]]
        /\ raced' = (raced \/ (todo # <<>> /\ InProgress \ {t} # {}))
  /\ UNCHANGED <<grades, auditLogs, nextGid, saves, regVars, attVars, pureVars, moreVars>>

\* Grades.saveClassGrades: select('id, final_grade') ... .single()
GradeCheck(t) ==
  /\ gsave[t].pc = "check"
  /\ LET k == GradeKey(Head(gsave[t].todo).pupil, gsave[t].quarter)
         rows == RowsFor(grades, k)
     IN gsave' = [gsave EXCEPT ![t].pc = "write",
                               ![t].existing =
                                 IF Cardinality(rows) = 1
                                 THEN LET g == CHOOSE x \in rows : TRUE
                                      IN [id |-> g.id, final_grade |-> g.final_grade]
                                 ELSE NoGrade]
  /\ UNCHANGED <<grades, auditLogs, nextGid, saves, raced, regVars, attVars, pureVars, moreVars>>

\* Grades.saveClassGrades: update by id, or insert; an error is thrown
GradeWrite(t) ==
  /\ gsave[t].pc = "write"
  /\ LET it == Head(gsave[t].todo)
         k == GradeKey(it.pupil, gsave[t].quarter)
         ex == gsave[t].existing
     IN IF ex # NoGrade
        THEN /\ grades' = {IF g.id = ex.id
                           THEN [g EXCEPT !.key = k, !.final_grade = it.grade]
                           ELSE g : g \in grades}
             /\ nextGid' = nextGid
             /\ saves' = [saves EXCEPT ![k] = @ + 1]
             /\ gsave' = [gsave EXCEPT ![t].pc = "audit",
                            ![t].entry = <<AuditEntry("update_grade", ex.id, k,
                                                      ex.final_grade, it.grade)>>]
        ELSE IF KeyTaken(grades, k)
        THEN /\ UNCHANGED <<grades, nextGid, saves>>
             /\ gsave' = [gsave EXCEPT ![t] =
                            [IdleSave EXCEPT !.pc = "done", !.result = "error"]]
        ELSE /\ grades' = grades \cup {[id |-> nextGid, key |-> k,
                                        final_grade |-> it.grade]}
             /\ nextGid' = nextGid + 1
             /\ saves' = [saves EXCEPT ![k] = @ + 1]
             /\ gsave' = [gsave EXCEPT ![t].pc = "audit",
                            ![t].entry = <<AuditEntry("create_grade", nextGid, k,
                                                      Null, it.grade)>>]
  /\ UNCHANGED <<auditLogs, raced, regVars, attVars, pureVars, moreVars>>

\* Grades.saveClassGrades: insert into audit_logs, then the next entry
GradeAudit(t) ==
  /\ gsave[t].pc = "audit"
  /\ LET e == gsave[t].entry[1]
         rest == Tail(gsave[t].todo)
     IN /\ auditLogs' = Append(auditLogs, e)
        /\ gsave' = [gsave EXCEPT ![t] =
                       IF rest = <<>>
                       THEN [IdleSave EXCEPT !.pc = "done", !.result = "saved"]
                       ELSE [gsave[t] EXCEPT !.pc = "check", !.todo = rest,
                                             !.existing = NoGrade,
                                             !.entry = <<>>]]
  /\ UNCHANGED <<grades, nextGid, saves, raced, regVars, attVars, pureVars, moreVars>>

\* upsert(gradeData, {onConflict: 'pupil_id,subject_id,quarter'})
Upsert(gs, gid, k, grade) ==
  IF KeyTaken(gs, k)
  THEN {IF g.key = k THEN [g EXCEPT !.final_grade = grade] ELSE g : g \in gs}
  ELSE gs \cup {[id |-> gid, key |-> k, final_grade |-> grade]}

\* utility saveClassGrades: for each grade, upsert and logAuditEvent with
\* oldValues = null; the state after the whole list
RECURSIVE UtilSave(_, _, _)
UtilSave(items, q, st) ==
  IF items = <<>> THEN st
  ELSE LET it == Head(items)
           k == GradeKey(it.pupil, q)
           isNew == ~KeyTaken(st.grades, k)
       IN UtilSave(Tail(items), q,
            [grades |-> Upsert(st.grades, st.nextGid, k, it.grade),
             nextGid |-> IF isNew THEN st.nextGid + 1 ELSE st.nextGid,
             auditLogs |-> Append(st.auditLogs,
                                  AuditEntry("save_class_grade", it.pupil, k,
                                             Null, it.grade)),
             saves |-> [st.saves EXCEPT ![k] = @ + 1]])

UtilSaveClassGrades(q, items) ==
  /\ items # <<>>
  /\ Len(auditLogs) + Outstanding + Len(items) <= MaxAudit
  /\ LET st == UtilSave(items, q, [grades |-> grades, nextGid |-> nextGid,
                                   auditLogs |-> auditLogs, saves |-> saves])
     IN /\ grades' = st.grades
        /\ nextGid' = st.nextGid
        /\ auditLogs' = st.auditLogs
        /\ saves' = st.saves
  /\ raced' = (raced \/ InProgress # {})
  /\ UNCHANGED <<gsave, regVars, attVars, pureVars, moreVars>>

\* ------------------------------------------------------ grade entry: claims
AuditFor(k) == SelectSeq(auditLogs, LAMBDA e : e.key = k)

\* C9: after grade saves that did not overlap, every key has one audit entry
\* per save and a single record holding the value of the last save; the first
\* entry's before-value is null, and the entry of a save that changed the
\* value has the value written by the previous save as its before-value.
C9_AuditBeforeIsPreviousValue ==
  (InProgress = {} /\ ~raced)
    => \A k \in GradeKeys :
         LET es == AuditFor(k)
         IN /\ Len(es) = saves[k]
            /\ saves[k] > 0
                 => \E g \in grades : /\ RowsFor(grades, k) = {g}
                                      /\ g.final_grade = es[Len(es)].new_values
            /\ Len(es) > 0 => es[1].old_values = Null
            /\ \A i \in 2..Len(es) :
                 es[i].new_values # es[i - 1].new_values
                   => es[i].old_values = es[i - 1].new_values

Sessions == {"t1", "a1", "t2", "g1", "anon"}
Staff == {"t1", "a1"}
Dates == {"d1", "d2"}
Today == "d1"
\* values of getCurrentTime(), as <<hour, minute>>
ClockTimes == {<<8, 15>>, <<8, 16>>}
\* the two buttons of a row: markAttendance(pupil.id, 'present' | 'absent')
RawStatuses == {"present", "absent"}
\* what the dialog's textarea holds when Excuse Absence is pressed
ExcuseReasons == {<<>>, <<" ">>, <<"x">>}
NoUser == "nobody"
NoPupil == "nopupil"
NoParent == "noparent"
NoTime == <<>>
NoReason == <<>>

\* useAuth().user
UserOf(s) == IF s \in switched THEN "g1"
             ELSE IF s = "anon" THEN NoUser ELSE s
\* users.role of a profile
RoleOfUser(u) == CASE u \in {"t1", "t2"} -> "teacher"
                   [] u = "a1" -> "admin"
                   [] u = "g1" -> "parent"
                   [] OTHER -> "norole"
RoleOf(s) == RoleOfUser(UserOf(s))
\* AuthContext.isRole: user?.role === role
isRole(s, role) == UserOf(s) # NoUser /\ RoleOf(s) = role
\* the subject filter of the page ('' until one is chosen; parents have none)
SelectedSubject(s) == IF s \in Staff \cup {"anon"} THEN Subject ELSE ""
\* subjects.start_time
StartTime(subj) == IF subj = Subject THEN <<8, 0>> ELSE NoTime
\* pupils.parent_id
ParentOf(p) == IF p = "p1" THEN "g1" ELSE NoParent

LateMinutes == 15
LATE_THRESHOLD_MINUTES == 15

\* new Date(`2000-01-01T${t}`).getTime(), in ms after that day's midnight
TimeMs(t) == (t[1] * 60 + t[2]) * 60000

\* faulty variant of isLate: the threshold minute itself counts as late
isLateInclusive(timeIn, classStartTime) ==
  IF timeIn = NoTime \/ classStartTime = NoTime THEN FALSE
  ELSE TimeMs(timeIn) >= TimeMs(classStartTime) + LateMinutes * 60000
\* Attendance.isLate
isLate(timeIn, classStartTime) ==
  IF timeIn = NoTime \/ classStartTime = NoTime THEN FALSE
  ELSE TimeMs(timeIn) > TimeMs(classStartTime) + LateMinutes * 60000

\* faulty variant of isLateAttendance: the threshold minute counts as late
isLateAttendanceInclusive(timeIn, classStartTime) ==
  IF timeIn = NoTime \/ classStartTime = NoTime THEN FALSE
  ELSE TimeMs(timeIn) >=
         TimeMs(classStartTime) + LATE_THRESHOLD_MINUTES * 60000
\* utility isLateAttendance
isLateAttendance(timeIn, classStartTime) ==
  IF timeIn = NoTime \/ classStartTime = NoTime THEN FALSE
  ELSE TimeMs(timeIn) >
         TimeMs(classStartTime) + LATE_THRESHOLD_MINUTES * 60000

AttKey(p, subj, d) == <<p, subj, d>>
AttKeys == {AttKey(p, Subject, d) : p \in Pupils, d \in Dates}

\* the columns an upsert payload carries; a column that is not in the
\* payload (remarks is undefined in every call of the page and is dropped
\* from the request body) keeps its stored value on conflict
MarkCols == {"time_in", "status", "teacher_id"}
ExcuseCols == {"status", "excuse_reason", "teacher_id"}

NoData == [key |-> <<>>, cols |-> {}, status |-> "", time_in |-> NoTime,
           excuse_reason |-> NoReason, teacher_id |-> ""]

\* markAttendance: present is re-derived as late from the time and the
\* subject's start time
FinalStatus(status, currentTime, start) ==
  IF status = "present" /\ start # NoTime /\ isLate(currentTime, start)
  THEN "late" ELSE status

\* markAttendance: attendanceData
MarkData(s, p, d, status, now) ==
  [key |-> AttKey(p, SelectedSubject(s), d), cols |-> MarkCols,
   time_in |-> IF status \in {"present", "late"} THEN now ELSE NoTime,
   status |-> FinalStatus(status, now, StartTime(SelectedSubject(s))),
   excuse_reason |-> NoReason, teacher_id |-> UserOf(s)]

\* handleExcuseAbsence: attendanceData
ExcuseData(s, p, d, reason) ==
  [key |-> AttKey(p, SelectedSubject(s), d), cols |-> ExcuseCols,
   time_in |-> NoTime, status |-> "excused",
   excuse_reason |-> reason, teacher_id |-> UserOf(s)]

AttRowsFor(rows, k) == {r \in rows : r.key = k}

\* ON CONFLICT DO UPDATE SET of the payload's columns
Merge(r, data) ==
  [r EXCEPT !.status = IF "status" \in data.cols THEN data.status ELSE @,
            !.time_in = IF "time_in" \in data.cols THEN data.time_in ELSE @,
            !.excuse_reason = IF "excuse_reason" \in data.cols
                              THEN data.excuse_reason ELSE @,
            !.teacher_id = IF "teacher_id" \in data.cols
                           THEN data.teacher_id ELSE @]

NewRow(id, data) ==
  Merge([id |-> id, key |-> data.key, status |-> "", time_in |-> NoTime,
         excuse_reason |-> NoReason, teacher_id |-> ""], data)

\* faulty variant of AttUpsert: a plain insert into a table without the key
AttInsert(rows, id, data) == rows \cup {NewRow(id, data)}
\* faulty variant of AttUpsert: ignoreDuplicates, the first write is kept
AttUpsertIgnoreDuplicates(rows, id, data) ==
  IF AttRowsFor(rows, data.key) # {} THEN rows
  ELSE rows \cup {NewRow(id, data)}
\* upsert(attendanceData, {onConflict: 'pupil_id,subject_id,date'})
AttUpsert(rows, id, data) ==
  IF AttRowsFor(rows, data.key) # {}
  THEN {IF r.key = data.key THEN Merge(r, data) ELSE r : r \in rows}
  ELSE rows \cup {NewRow(id, data)}

\* .select() after the upsert: data?.[0]?.id || ''
EntityId(rows, k) ==
  IF AttRowsFor(rows, k) = {} THEN 0
  ELSE (CHOOSE r \in AttRowsFor(rows, k) : TRUE).id

IdleAtt == [pc |-> "idle", op |-> "none", raw |-> "", data |-> NoData]

\* attendance writes applied or still to be applied
WritesStarted ==
  attWrites + Cardinality({s \in Sessions : att[s].pc = "upsert"})

otherGradeVars == <<grades, nextGid, gsave, saves, raced>>

\* faulty variant of InsertAudit: nothing is written
InsertAuditNever(entry, ok) == auditLogs' = auditLogs /\ auditLost' = auditLost
\* the insert into audit_logs; its result is not looked at
InsertAudit(entry, ok) ==
  IF ok THEN auditLogs' = Append(auditLogs, entry) /\ auditLost' = auditLost
  ELSE auditLogs' = auditLogs /\ auditLost' = auditLost + 1

\* faulty variant of MayMark: no check of the actor
MayMarkAnyone(s) == TRUE
\* markAttendance: if (!user || isRole('parent')) the call is refused
MayMark(s) == ~(UserOf(s) = NoUser \/ isRole(s, "parent"))

\* markAttendance up to the upsert: the two guards and attendanceData; d is
\* formatDate(selectedDate) at the time of the click
MarkAttendance(s, p, d, status, now) ==
  /\ att[s].pc = "idle"
  /\ s \in Staff => excuseModal[s] = NoPupil
  /\ IF ~MayMark(s)
     THEN /\ toast' = "permission"
          /\ att' = att
     ELSE IF SelectedSubject(s) = ""
     THEN /\ toast' = "no_subject"
          /\ att' = att
     ELSE /\ WritesStarted < MaxWrites
          /\ att' = [att EXCEPT ![s] =
                       [pc |-> "upsert", op |-> "mark", raw |-> status,
                        data |-> MarkData(s, p, d, status, now)]]
          /\ toast' = toast
  /\ UNCHANGED <<attendance, notifications, nextAid, attWrites, auditLost,
                 excuseModal, auditLogs, otherGradeVars, regVars, pureVars, moreVars>>

\* the upsert of a call: applied, or refused by the store (the error is
\* thrown and caught: a toast, nothing else)
ApplyUpsert(s, ok) ==
  IF ok
  THEN /\ attendance' = AttUpsert(attendance, nextAid, att[s].data)
       /\ nextAid' = IF Cardinality(attendance') > Cardinality(attendance)
                     THEN nextAid + 1 ELSE nextAid
       /\ attWrites' = attWrites + 1
       /\ att' = [att EXCEPT ![s].pc = "audit"]
       /\ toast' = toast
  ELSE /\ att' = [att EXCEPT ![s] = IdleAtt]
       /\ toast' = "error"
       /\ UNCHANGED <<attendance, nextAid, attWrites>>

\* markAttendance: await supabase.from('attendance').upsert(...).select()
MarkUpsert(s, ok) ==
  /\ att[s].pc = "upsert"
  /\ att[s].op = "mark"
  /\ ApplyUpsert(s, ok)
  /\ UNCHANGED <<notifications, auditLost, excuseModal, auditLogs,
                 otherGradeVars, regVars, pureVars, moreVars>>

\* markAttendance: the audit insert and toast.success
MarkAudit(s, ok) ==
  /\ att[s].pc = "audit"
  /\ att[s].op = "mark"
  /\ LET d == att[s].data
     IN /\ InsertAudit(AuditEntry("mark_attendance",
                                  EntityId(attendance, d.key), d.key,
                                  Null, d.status), ok)
        /\ att' = [att EXCEPT ![s] = IF d.status = "absent"
                                      THEN [att[s] EXCEPT !.pc = "notify"]
                                      ELSE IdleAtt]
  /\ toast' = "ok"
  /\ UNCHANGED <<attendance, notifications, nextAid, attWrites, excuseModal,
                 otherGradeVars, regVars, pureVars, moreVars>>

\* faulty variant of Notify: the guardian link is not looked at
NotifyUnlinked(p) ==
  Append(notifications, [recipient_id |-> ParentOf(p),
                         type |-> "attendance_alert", pupil |-> p])
\* Attendance.sendAbsenceNotification
Notify(p) ==
  IF ParentOf(p) # NoParent
  THEN Append(notifications, [recipient_id |-> ParentOf(p),
                              type |-> "attendance_alert", pupil |-> p])
  ELSE notifications

\* markAttendance: if (finalStatus === 'absent') sendAbsenceNotification
MarkNotify(s) ==
  /\ att[s].pc = "notify"
  /\ notifications' = Notify(att[s].data.key[1])
  /\ att' = [att EXCEPT ![s] = IdleAtt]
  /\ UNCHANGED <<attendance, nextAid, toast, attWrites, auditLost, excuseModal,
                 auditLogs, otherGradeVars, regVars, pureVars, moreVars>>

\* the Excuse button of a row, shown when record?.status === 'absent' in
\* the Actions column, which is rendered when !isRole('parent').  The
\* table holds the records of the fetch that returned last; fetches of
\* different dates are not ordered, so its date need not be the selected one
OpenExcuseModal(s, p) ==
  /\ excuseModal[s] = NoPupil
  /\ ~isRole(s, "parent")
  /\ att[s].pc = "idle"
  /\ \E r \in attendance : /\ r.key[1] = p
                           /\ r.key[2] = SelectedSubject(s)
                           /\ r.status = "absent"
  /\ excuseModal' = [excuseModal EXCEPT ![s] = p]
  /\ UNCHANGED <<attendance, notifications, nextAid, att, toast,
                 attWrites, auditLost,
                 auditLogs, otherGradeVars, regVars, pureVars, moreVars>>

\* Cancel, or a click on the backdrop
CloseExcuseModal(s) ==
  /\ excuseModal[s] # NoPupil
  /\ att[s].pc = "idle"
  /\ excuseModal' = [excuseModal EXCEPT ![s] = NoPupil]
  /\ UNCHANGED <<attendance, notifications, nextAid, att, toast,
                 attWrites, auditLost,
                 auditLogs, otherGradeVars, regVars, pureVars, moreVars>>

\* handleExcuseAbsence up to the upsert; d is formatDate(selectedDate)
HandleExcuseAbsence(s, d, reason) ==
  /\ att[s].pc = "idle"
  /\ excuseModal[s] # NoPupil
  /\ IF IsBlank(reason)
     THEN /\ toast' = "blank_reason"
          /\ att' = att
     ELSE /\ WritesStarted < MaxWrites
          /\ att' = [att EXCEPT ![s] =
                       [pc |-> "upsert", op |-> "excuse", raw |-> "",
                        data |-> ExcuseData(s, excuseModal[s], d, reason)]]
          /\ toast' = toast
  /\ UNCHANGED <<attendance, notifications, nextAid, attWrites, auditLost,
                 excuseModal, auditLogs, otherGradeVars, regVars, pureVars, moreVars>>

\* handleExcuseAbsence: await supabase.from('attendance').upsert(...).select()
ExcuseUpsert(s, ok) ==
  /\ att[s].pc = "upsert"
  /\ att[s].op = "excuse"
  /\ ApplyUpsert(s, ok)
  /\ UNCHANGED <<notifications, auditLost, excuseModal, auditLogs,
                 otherGradeVars, regVars, pureVars, moreVars>>

\* handleExcuseAbsence: the audit insert, toast.success, the dialog closes
ExcuseAudit(s, ok) ==
  /\ att[s].pc = "audit"
  /\ att[s].op = "excuse"
  /\ LET d == att[s].data
     IN InsertAudit(AuditEntry("excuse_absence",
                               EntityId(attendance, d.key), d.key,
                               "absent", "excused"), ok)
  /\ excuseModal' = [excuseModal EXCEPT ![s] = NoPupil]
  /\ att' = [att EXCEPT ![s] = IdleAtt]
  /\ toast' = "ok"
  /\ UNCHANGED <<attendance, notifications, nextAid, attWrites,
                 otherGradeVars, regVars, pureVars, moreVars>>

AttInit ==
  /\ attendance = {}
  /\ notifications = <<>>
  /\ nextAid = 1
  /\ att = [s \in Sessions |-> IdleAtt]
  /\ toast = "none"
  /\ attWrites = 0
  /\ auditLost = 0
  /\ excuseModal = [s \in Staff |-> NoPupil]


\* --------------------------------------------------- grade entry: validation
\* gradeSchema.final_grade: z.number().min(60).max(100)
gradeSchema(grade) == grade >= 60 /\ grade <= 100

\* values typed into a grade input of the class table; min="60" and max="100"
\* are attributes of the input and stop no onChange
EntryValues == {0, 59, 60, 100, 101}
EntrySeqs ==
  {items \in UNION {[1..n -> [pupil : Pupils, grade : EntryValues]] :
                      n \in 0..Cardinality(Pupils)} :
     \A i, j \in 1..Len(items) : i # j => items[i].pupil # items[j].pupil}

\* ------------------------------------------------------- lateness functions
\* times of day given to the lateness functions, and the missing value ''
LateTimes ==
  {NoTime} \cup {<<h, m>> : h \in {8, 9, 23}, m \in {0, 14, 15, 16, 45, 59}}

\* Attendance.isLate applied to the arguments
PageIsLate ==
  /\ lateOut.page = <<>>
  /\ lateOut' = [lateOut EXCEPT !.page = <<isLate(lateIn[1], lateIn[2])>>]
  /\ UNCHANGED <<lateIn, avgIn, avgOut, regVars, gradeVars, attVars, moreVars>>

\* isLateAttendance applied to the arguments
UtilIsLate ==
  /\ lateOut.util = <<>>
  /\ lateOut' = [lateOut EXCEPT
                   !.util = <<isLateAttendance(lateIn[1], lateIn[2])>>]
  /\ UNCHANGED <<lateIn, avgIn, avgOut, regVars, gradeVars, attVars, moreVars>>

\* ------------------------------------------------------------ class averages
\* for (const quarter of [1, 2, 3, 4])
AllQuarters == {1, 2, 3, 4}
AvgSubjects == {"s1", "s2"}
\* final grades found in table grades
StoredGrades == {0, 75, 90}
\* one pupil's grades: at most one per (subject, quarter), Null where none
GradeSheets == [AllQuarters \X AvgSubjects -> StoredGrades \cup {Null}]

\* Math.round(a / n) for a >= 0, n > 0
RoundDiv(a, n) == (2 * a + n) \div (2 * n)

\* .eq('pupil_id', pupil.id).eq('quarter', quarter)
PupilGrades(sheet, q) == {s \in AvgSubjects : sheet[<<q, s>>] # Null}

RECURSIVE SumGrades(_, _, _)
\* pupilGrades.reduce((sum, g) => sum + g.final_grade, 0)
SumGrades(sheet, q, ss) ==
  IF ss = {} THEN 0
  ELSE LET s == CHOOSE x \in ss : TRUE
       IN sheet[<<q, s>>] + SumGrades(sheet, q, ss \ {s})

\* quarterAverages[`q${quarter}_avg`], in hundredths
QuarterAvg(sheet, q) ==
  LET gs == PupilGrades(sheet, q)
  IN IF gs # {}
     THEN RoundDiv(100 * SumGrades(sheet, q, gs), Cardinality(gs))
     ELSE Null

\* Object.values(quarterAverages).filter(avg => avg !== null)
ValidQuarters(sheet) == {q \in AllQuarters : QuarterAvg(sheet, q) # Null}

RECURSIVE SumAvgs(_, _)
\* validQuarters.reduce((sum, avg) => sum + avg, 0), in hundredths
SumAvgs(sheet, qs) ==
  IF qs = {} THEN 0
  ELSE LET q == CHOOSE x \in qs : TRUE
       IN QuarterAvg(sheet, q) + SumAvgs(sheet, qs \ {q})

\* final_avg: finalAvg ? Math.round(finalAvg * 100) / 100 : null, in
\* hundredths; finalAvg is the sum over the count, and 0 is falsy
FinalAvg(sheet) ==
  LET qs == ValidQuarters(sheet)
      sum == SumAvgs(sheet, qs)
  IN IF qs # {} /\ sum # 0 THEN RoundDiv(sum, Cardinality(qs)) ELSE Null

\* calculateClassAverages: the row of one pupil
CalculateClassAverages ==
  /\ avgOut = <<>>
  /\ avgOut' = <<[q_avg |-> [q \in AllQuarters |-> QuarterAvg(avgIn, q)],
                  final_avg |-> FinalAvg(avgIn)]>>
  /\ UNCHANGED <<avgIn, lateIn, lateOut, regVars, gradeVars, attVars, moreVars>>

\* nothing given to the pure functions
PureInit ==
  /\ lateIn = <<NoTime, NoTime>>
  /\ lateOut = [page |-> <<>>, util |-> <<>>]
  /\ avgIn = [k \in AllQuarters \X AvgSubjects |-> Null]
  /\ avgOut = <<>>

\* ------------------------------------------------------------ attendance rate
\* counts of a pupil's records per status
RateCounts == {0, 1, 2, 3, 7, 18}

\* a faulty variant: a late record does not count as attended
AttendanceRatePresentOnly(present, late, absent, excused) ==
  LET total == present + late + absent + excused
  IN IF total = 0 THEN 0 ELSE RoundDiv(present * 10000, total)

\* calculateAttendanceRate, in hundredths of a percent:
\* Math.round((attended / total) * 10000) / 100
calculateAttendanceRate(present, late, absent, excused) ==
  LET total == present + late + absent + excused
      attended == present + late
  IN IF total = 0 THEN 0 ELSE RoundDiv(attended * 10000, total)

\* calculateAttendanceRate applied to the counts
AttendanceRate ==
  /\ rateOut = <<>>
  /\ rateOut' = <<calculateAttendanceRate(rateIn[1], rateIn[2],
                                          rateIn[3], rateIn[4])>>
  /\ UNCHANGED <<rateIn, bandIn, bandOut, regVars, gradeVars, attVars,
                 pureVars, promoVars, authVars, tabVars>>

\* ---------------------------------------------------------- grade classifiers
\* scores are in hundredths of a point: 8999 is 89.99
Points == 100
ScoreValues ==
  {0, 6000, 7499, 7500, 7501, 7999, 8000, 8499, 8500, 8999, 9000, 9001, 10000}

\* GRADE_BOUNDARIES (types): min and label of each band
GRADE_BOUNDARIES ==
  [OUTSTANDING |-> [min |-> 90, label |-> "Outstanding"],
   VERY_SATISFACTORY |-> [min |-> 85, label |-> "Very Satisfactory"],
   SATISFACTORY |-> [min |-> 80, label |-> "Satisfactory"],
   FAIRLY_SATISFACTORY |-> [min |-> 75, label |-> "Fairly Satisfactory"],
   DID_NOT_MEET |-> [min |-> 0, label |-> "Did Not Meet Expectations"]]

\* a faulty variant: a score on a boundary falls into the band below
getLetterGradeOpen(score) ==
  IF score > Points * GRADE_BOUNDARIES.OUTSTANDING.min THEN "A"
  ELSE IF score > Points * GRADE_BOUNDARIES.VERY_SATISFACTORY.min THEN "B"
  ELSE IF score > Points * GRADE_BOUNDARIES.SATISFACTORY.min THEN "C"
  ELSE IF score > Points * GRADE_BOUNDARIES.FAIRLY_SATISFACTORY.min THEN "D"
  ELSE "F"

getLetterGrade(score) ==
  IF score >= Points * GRADE_BOUNDARIES.OUTSTANDING.min THEN "A"
  ELSE IF score >= Points * GRADE_BOUNDARIES.VERY_SATISFACTORY.min THEN "B"
  ELSE IF score >= Points * GRADE_BOUNDARIES.SATISFACTORY.min THEN "C"
  ELSE IF score >= Points * GRADE_BOUNDARIES.FAIRLY_SATISFACTORY.min THEN "D"
  ELSE "F"

getGradeDescription(score) ==
  IF score >= Points * GRADE_BOUNDARIES.OUTSTANDING.min
    THEN GRADE_BOUNDARIES.OUTSTANDING.label
  ELSE IF score >= Points * GRADE_BOUNDARIES.VERY_SATISFACTORY.min
    THEN GRADE_BOUNDARIES.VERY_SATISFACTORY.label
  ELSE IF score >= Points * GRADE_BOUNDARIES.SATISFACTORY.min
    THEN GRADE_BOUNDARIES.SATISFACTORY.label
  ELSE IF score >= Points * GRADE_BOUNDARIES.FAIRLY_SATISFACTORY.min
    THEN GRADE_BOUNDARIES.FAIRLY_SATISFACTORY.label
  ELSE GRADE_BOUNDARIES.DID_NOT_MEET.label

getGradeColor(score) ==
  IF score >= Points * GRADE_BOUNDARIES.OUTSTANDING.min THEN "text-green-600"
  ELSE IF score >= Points * GRADE_BOUNDARIES.VERY_SATISFACTORY.min
    THEN "text-blue-600"
  ELSE IF score >= Points * GRADE_BOUNDARIES.SATISFACTORY.min
    THEN "text-yellow-600"
  ELSE IF score >= Points * GRADE_BOUNDARIES.FAIRLY_SATISFACTORY.min
    THEN "text-orange-600"
  ELSE "text-red-600"

\* the copies inlined in the Grades page
GradesGetGradeColor(grade) ==
  IF grade >= Points * 90 THEN "text-green-600"
  ELSE IF grade >= Points * 85 THEN "text-blue-600"
  ELSE IF grade >= Points * 80 THEN "text-yellow-600"
  ELSE IF grade >= Points * 75 THEN "text-orange-600"
  ELSE "text-red-600"

GradesGetGradeLabel(grade) ==
  IF grade >= Points * 90 THEN "Outstanding"
  ELSE IF grade >= Points * 85 THEN "Very Satisfactory"
  ELSE IF grade >= Points * 80 THEN "Satisfactory"
  ELSE IF grade >= Points * 75 THEN "Fairly Satisfactory"
  ELSE "Did Not Meet Expectations"

\* the copies inlined in the MyChildren page
MyChildrenGetGradeColor(grade) ==
  IF grade >= Points * 90 THEN "text-green-600"
  ELSE IF grade >= Points * 85 THEN "text-blue-600"
  ELSE IF grade >= Points * 80 THEN "text-yellow-600"
  ELSE IF grade >= Points * 75 THEN "text-orange-600"
  ELSE "text-red-600"

MyChildrenGetGradeLabel(grade) ==
  IF grade >= Points * 90 THEN "Outstanding"
  ELSE IF grade >= Points * 85 THEN "Very Satisfactory"
  ELSE IF grade >= Points * 80 THEN "Satisfactory"
  ELSE IF grade >= Points * 75 THEN "Fairly Satisfactory"
  ELSE "Did Not Meet Expectations"

Classifiers == {"letter", "description", "color", "gradesColor",
                "gradesLabel", "childrenColor", "childrenLabel"}

\* one classifier applied to the score, its answer kept under its name
Classify(f, answer) ==
  /\ bandOut[f] = <<>>
  /\ bandOut' = [bandOut EXCEPT ![f] = <<answer>>]
  /\ UNCHANGED <<bandIn, rateIn, rateOut, regVars, gradeVars, attVars,
                 pureVars, promoVars, authVars, tabVars>>

LetterGrade == Classify("letter", getLetterGrade(bandIn))
GradeDescription == Classify("description", getGradeDescription(bandIn))
GradeColor == Classify("color", getGradeColor(bandIn))
GradesColor == Classify("gradesColor", GradesGetGradeColor(bandIn))
GradesLabel == Classify("gradesLabel", GradesGetGradeLabel(bandIn))
ChildrenColor == Classify("childrenColor", MyChildrenGetGradeColor(bandIn))
ChildrenLabel == Classify("childrenLabel", MyChildrenGetGradeLabel(bandIn))

\* nothing given to the rate and the classifiers
CalcInit ==
  /\ rateIn = <<0, 0, 0, 0>>
  /\ rateOut = <<>>
  /\ bandIn = 0
  /\ bandOut = [f \in Classifiers |-> <<>>]

\* ---------------------------------------------------------------- promotion
\* the six source buttons of the dialog: [1, 2, 3, 4, 5, 6].map(...)
GradeLevels == 1..6
\* destination option 7 is shown as 'Graduated'
Graduated == 7
\* what the section input of the dialog holds
SectionTexts == {"", "B"}
NoGradeLevel == 0

\* the rows of table pupils when the page is opened
PupilRowsAtStart ==
  [p \in Pupils |->
     [grade_level |-> 5, section |-> "A", archived |-> FALSE]]

\* the dialog as handleCloseModal leaves it
ClosedModal ==
  [from |-> NoGradeLevel, to |-> NoGradeLevel, section |-> "", selected |-> {}]

IdlePromo == [pc |-> "idle", todo |-> <<>>, ids |-> {}, refused |-> {},
              from |-> NoGradeLevel, to |-> NoGradeLevel, result |-> "none"]

\* the pupils listed in step 3 of the dialog
pupilsForPromotion(grade) ==
  IF grade = NoGradeLevel THEN {}
  ELSE {p \in Pupils : /\ pupilRows[p].grade_level = grade
                       /\ ~pupilRows[p].archived}

\* Array.from(selectedPupilsForPromotion), in the order of the pupils list
SelectedIds(selected) ==
  SelectSeq(<<"p1", "p2">>, LAMBDA p : p \in selected)

\* the options of the destination select
DestinationOptions(from) == {g \in {from + 1, from + 2} : g <= 7}

\* handlePromotionGradeSelect: the destination and the section stay as they are
handlePromotionGradeSelect(grade) ==
  /\ promo.pc = "idle"
  /\ promoModal' = [promoModal EXCEPT !.from = grade,
                                      !.selected = pupilsForPromotion(grade)]
  /\ UNCHANGED <<pupilRows, promo, refusedAudits, regVars, gradeVars, attVars,
                 pureVars, calcVars, authVars, tabVars>>

\* onChange of the destination select: an option of the list, or '' -> null
setPromotionToGrade(g) ==
  /\ promo.pc = "idle"
  /\ promoModal.from # NoGradeLevel
  /\ g \in DestinationOptions(promoModal.from) \cup {NoGradeLevel}
  /\ promoModal' = [promoModal EXCEPT !.to = g]
  /\ UNCHANGED <<pupilRows, promo, refusedAudits, regVars, gradeVars, attVars,
                 pureVars, calcVars, authVars, tabVars>>

\* onChange of the section input
setPromotionToSection(text) ==
  /\ promo.pc = "idle"
  /\ promoModal.from # NoGradeLevel
  /\ promoModal' = [promoModal EXCEPT !.section = text]
  /\ UNCHANGED <<pupilRows, promo, refusedAudits, regVars, gradeVars, attVars,
                 pureVars, calcVars, authVars, tabVars>>

\* handlePupilSelectionToggle, from a row of step 3
handlePupilSelectionToggle(p) ==
  /\ promo.pc = "idle"
  /\ p \in pupilsForPromotion(promoModal.from)
  /\ promoModal' = [promoModal EXCEPT
                      !.selected = IF p \in @ THEN @ \ {p} ELSE @ \cup {p}]
  /\ UNCHANGED <<pupilRows, promo, refusedAudits, regVars, gradeVars, attVars,
                 pureVars, calcVars, authVars, tabVars>>

\* the Select All button of step 3
SelectAll ==
  /\ promo.pc = "idle"
  /\ pupilsForPromotion(promoModal.from) # {}
  /\ promoModal' = [promoModal EXCEPT
                      !.selected =
                        IF Cardinality(@) =
                             Cardinality(pupilsForPromotion(promoModal.from))
                        THEN {}
                        ELSE pupilsForPromotion(promoModal.from)]
  /\ UNCHANGED <<pupilRows, promo, refusedAudits, regVars, gradeVars, attVars,
                 pureVars, calcVars, authVars, tabVars>>

\* handleCloseModal (Cancel)
handleCloseModal ==
  /\ promo.pc = "idle"
  /\ promoModal # ClosedModal
  /\ promoModal' = ClosedModal
  /\ UNCHANGED <<pupilRows, promo, refusedAudits, regVars, gradeVars, attVars,
                 pureVars, calcVars, authVars, tabVars>>

\* update({grade_level, section}).in('id', selectedPupilIds): one statement;
\* when the store refuses a row the statement fails and changes nothing
UpdatePupils(rows, ids, refused, to, section) ==
  IF refused # {} THEN rows
  ELSE [p \in Pupils |->
          IF p \in ids
          THEN [rows[p] EXCEPT !.grade_level = to, !.section = section]
          ELSE rows[p]]

\* handlePromotePupils up to the audit loop; refused are the selected pupils
\* whose row the store does not accept.  With no destination, no section or
\* nothing selected the handler returns at once (the button is disabled).
handlePromotePupils(refused) ==
  /\ promo.pc = "idle"
  /\ promoModal.to # NoGradeLevel
  /\ promoModal.section # ""
  /\ promoModal.selected # {}
  /\ refused \subseteq promoModal.selected
  /\ Len(auditLogs) + refusedAudits + Cardinality(promoModal.selected)
       <= MaxAudit
  /\ LET ids == promoModal.selected
         c == [IdlePromo EXCEPT !.ids = ids, !.refused = refused,
                                !.from = promoModal.from,
                                !.to = promoModal.to]
     IN /\ pupilRows' = UpdatePupils(pupilRows, ids, refused, promoModal.to,
                                     promoModal.section)
        /\ promo' = IF refused # {}
                    THEN [c EXCEPT !.result = "error"]
                    ELSE [c EXCEPT !.pc = "audit", !.todo = SelectedIds(ids)]
  /\ UNCHANGED <<promoModal, refusedAudits, regVars, gradeVars, attVars,
                 pureVars, calcVars, authVars, tabVars>>

\* a faulty variant of AuditLoopNext: a refused insert ends the loop
AuditLoopNextChecked(ok, rest) ==
  IF ~ok THEN "error" ELSE IF rest = <<>> THEN "success" ELSE "audit"

\* the audit loop of handlePromotePupils after one insert, whose result is
\* not read: the next pupil, or the success toast after the last one
AuditLoopNext(ok, rest) == IF rest = <<>> THEN "success" ELSE "audit"

\* handlePromotePupils: one insert of the audit loop; after the last one the
\* success toast, and handleCloseModal
PromoteAudit(ok) ==
  /\ promo.pc = "audit"
  /\ LET p == Head(promo.todo)
         rest == Tail(promo.todo)
         next == AuditLoopNext(ok, rest)
         e == AuditEntry("promote_pupil", p, <<"pupils", p>>, promo.from,
                         promo.to)
     IN /\ auditLogs' = IF ok THEN Append(auditLogs, e) ELSE auditLogs
        /\ refusedAudits' = IF ok THEN refusedAudits ELSE refusedAudits + 1
        /\ promo' = IF next = "audit" THEN [promo EXCEPT !.todo = rest]
                    ELSE [promo EXCEPT !.pc = "idle", !.todo = <<>>,
                                       !.result = next]
        /\ promoModal' = IF next = "success" THEN ClosedModal ELSE promoModal
  /\ UNCHANGED <<pupilRows, otherGradeVars, regVars, attVars, pureVars,
                 calcVars, authVars, tabVars>>

\* the utility promoteStudent: archive for toGrade 7, otherwise grade_level
\* and section; the update's result is not read, logAuditEvent swallows its
\* own failure, and the answer is true
promoteStudent(p, fromGrade, toGrade, toSection, okUpdate, okAudit) ==
  /\ promo.pc = "idle"
  /\ Len(auditLogs) + refusedAudits < MaxAudit
  /\ pupilRows' =
       IF ~okUpdate THEN pupilRows
       ELSE IF toGrade = 7
       THEN [pupilRows EXCEPT ![p].archived = TRUE]
       ELSE [pupilRows EXCEPT ![p].grade_level = toGrade,
                              ![p].section = toSection]
  /\ LET e == AuditEntry(IF toGrade = 7 THEN "graduate_pupil"
                         ELSE "promote_pupil",
                         p, <<"pupils", p>>, fromGrade, toGrade)
     IN /\ auditLogs' = IF okAudit THEN Append(auditLogs, e) ELSE auditLogs
        /\ refusedAudits' = IF okAudit THEN refusedAudits
                            ELSE refusedAudits + 1
  /\ UNCHANGED <<promo, promoModal, otherGradeVars, regVars, attVars,
                 pureVars, calcVars, authVars, tabVars>>

PromoInit ==
  /\ pupilRows = PupilRowsAtStart
  /\ promoModal = ClosedModal
  /\ promo = IdlePromo
  /\ refusedAudits = 0

\* ------------------------------------------------- grade save: audit refused
\* Grades.saveClassGrades: the audit insert when the store refuses it; the
\* result of the insert is not read, so the loop goes on as after an insert
\* that was accepted
GradeAuditRefused(t) ==
  /\ gsave[t].pc = "audit"
  /\ refusedAudits < MaxWrites
  /\ LET rest == Tail(gsave[t].todo)
     IN gsave' = [gsave EXCEPT ![t] =
                    IF rest = <<>>
                    THEN [IdleSave EXCEPT !.pc = "done", !.result = "saved"]
                    ELSE [gsave[t] EXCEPT !.pc = "check", !.todo = rest,
                                          !.existing = NoGrade,
                                          !.entry = <<>>]]
  /\ refusedAudits' = refusedAudits + 1
  /\ UNCHANGED <<grades, auditLogs, nextGid, saves, raced, pupilRows,
                 promoModal, promo, regVars, attVars, pureVars, calcVars,
                 authVars, tabVars>>

\* one signed-in tab shows one page: no handler of the tab is running
TabQuiet ==
  /\ gsave["t1"].pc \in {"idle", "done"}
  /\ att["t1"].pc = "idle"
  /\ promo.pc = "idle"

\* ------------------------------------------------------------- AuthProvider
\* one browser tab with the AuthProvider mounted, the identity provider's
\* client in it, and the tables users and user_registrations behind it
MaxEvents == 1
NoSession == "none"
NoProfile == [id |-> "none", email |-> "none", role |-> "none"]
IdleAuth == [pc |-> "idle", cred |-> "none"]

\* the email of a credential (the credential's id stands for its email)
CredEmail(c) == c

\* fetchUserProfile(userId): the row with that id; otherwise the row with
\* the credential's email, whose id is set to userId (when that update fails
\* the row is answered as it is); otherwise null.  A query that fails
\* answers null as well.
fetchUserProfile(us, userId, readOk, updateOk) ==
  LET byId == {u \in us : u.id = userId}
      byEmail == {u \in us : u.email = CredEmail(userId)}
  IN IF ~readOk THEN [profile |-> NoProfile, users |-> us]
     ELSE IF byId # {}
     THEN [profile |-> CHOOSE u \in byId : TRUE, users |-> us]
     ELSE IF byEmail # {}
     THEN LET u == CHOOSE x \in byEmail : TRUE
              v == [u EXCEPT !.id = userId]
          IN IF updateOk
             THEN [profile |-> v, users |-> (us \ {u}) \cup {v}]
             ELSE [profile |-> u, users |-> us]
     ELSE [profile |-> NoProfile, users |-> us]

\* signIn: newProfile = { id, email, full_name, role: 'admin' }
NewProfileRole(e) == "admin"

AuthEvent(type, c) == [type |-> type, session |-> c]

\* supabase.auth.signOut(): the client drops its session and tells the
\* listener
ClientSignOut ==
  /\ clientSession' = NoSession
  /\ events' = Append(events, AuthEvent("SIGNED_OUT", NoSession))

\* signIn up to fetchUserProfile: signInWithPassword, setSession
signIn(e, ok) ==
  /\ signInCall.pc = "idle"
  /\ IF ok /\ CredsFor(e) # {}
     THEN /\ Len(events) < MaxEvents
          /\ clientSession' = e
          /\ events' = Append(events, AuthEvent("SIGNED_IN", e))
          /\ session' = e
          /\ signInCall' = [pc |-> "fetch", cred |-> e]
     ELSE UNCHANGED <<clientSession, events, session, signInCall>>
  /\ UNCHANGED <<user, signOutCall, listenerCall, initCall, regVars,
                 gradeVars, attVars, pureVars, calcVars,
                 promoVars, tabVars>>

\* signIn: let profile = await fetchUserProfile(data.user.id), and setUser
\* when there is one
SignInFetch(readOk, updateOk) ==
  /\ signInCall.pc = "fetch"
  /\ LET r == fetchUserProfile(users, signInCall.cred, readOk,
                               updateOk)
     IN /\ users' = r.users
        /\ IF r.profile # NoProfile
           THEN user' = r.profile /\ signInCall' = IdleAuth
           ELSE user' = user /\ signInCall' = [signInCall EXCEPT !.pc = "insert"]
  /\ UNCHANGED <<session, clientSession, events, signOutCall, listenerCall,
                 initCall, registrations, authUsers, call, rej, succeeded,
                 partial, rejectedOk, statusBefore, gradeVars, attVars,
                 pureVars, calcVars,
                 promoVars, tabVars>>

\* signIn: insert(newProfile); a row with the same email sends the call to
\* the duplicate-email branch, any other error to signOut and throw
SignInInsert(ok) ==
  /\ signInCall.pc = "insert"
  /\ LET c == signInCall.cred
         e == CredEmail(c)
         newProfile == [id |-> c, email |-> e, role |-> NewProfileRole(e)]
         sameId == \E u \in users : u.id = c
         sameEmail == \E u \in users : u.email = e
     IN IF ok /\ ~sameId /\ ~sameEmail
        THEN /\ users' = users \cup {newProfile}
             /\ user' = newProfile
             /\ signInCall' = IdleAuth
        ELSE /\ UNCHANGED <<users, user>>
             /\ signInCall' = [signInCall EXCEPT
                                 !.pc = IF ok /\ ~sameId /\ sameEmail
                                        THEN "dup" ELSE "abort"]
  /\ UNCHANGED <<session, clientSession, events, signOutCall, listenerCall,
                 initCall, registrations, authUsers, call, rej, succeeded,
                 partial, rejectedOk, statusBefore, gradeVars, attVars,
                 pureVars, calcVars,
                 promoVars, tabVars>>

\* signIn, duplicate email: the existing row is fetched by email and its id
\* updated; when the update fails the existing row is used as it is
SignInDuplicate(fetchOk, updateOk) ==
  /\ signInCall.pc = "dup"
  /\ LET c == signInCall.cred
         rows == {u \in users : u.email = CredEmail(c)}
     IN IF fetchOk /\ rows # {}
        THEN LET u == CHOOSE x \in rows : TRUE
                 v == [u EXCEPT !.id = c]
             IN /\ users' = IF updateOk THEN (users \ {u}) \cup {v} ELSE users
                /\ user' = IF updateOk THEN v ELSE u
                /\ signInCall' = IdleAuth
        ELSE /\ UNCHANGED <<users, user>>
             /\ signInCall' = [signInCall EXCEPT !.pc = "abort"]
  /\ UNCHANGED <<session, clientSession, events, signOutCall, listenerCall,
                 initCall, registrations, authUsers, call, rej, succeeded,
                 partial, rejectedOk, statusBefore, gradeVars, attVars,
                 pureVars, calcVars,
                 promoVars, tabVars>>

\* signIn, failure branches: await supabase.auth.signOut(), throw
SignInAbort ==
  /\ signInCall.pc = "abort"
  /\ Len(events) < MaxEvents
  /\ ClientSignOut
  /\ signInCall' = IdleAuth
  /\ UNCHANGED <<session, user, signOutCall, listenerCall, initCall, regVars,
                 gradeVars, attVars, pureVars, calcVars,
                 promoVars, tabVars>>

\* signOut: await supabase.auth.signOut(); an error is thrown
signOut(ok) ==
  /\ signOutCall.pc = "idle"
  /\ IF ok
     THEN /\ Len(events) < MaxEvents
          /\ ClientSignOut
          /\ signOutCall' = [signOutCall EXCEPT !.pc = "clear"]
     ELSE UNCHANGED <<clientSession, events, signOutCall>>
  /\ UNCHANGED <<session, user, signInCall, listenerCall, initCall, regVars,
                 gradeVars, attVars, pureVars, calcVars,
                 promoVars, tabVars>>

\* signOut: setUser(null), setSession(null)
SignOutClear ==
  /\ signOutCall.pc = "clear"
  /\ user' = NoProfile
  /\ session' = NoSession
  /\ signOutCall' = IdleAuth
  /\ UNCHANGED <<clientSession, events, signInCall, listenerCall, initCall,
                 regVars, gradeVars, attVars, pureVars, calcVars,
                 promoVars, tabVars>>

\* the client refreshes the token of its session
TokenRefreshed ==
  /\ clientSession # NoSession
  /\ Len(events) < MaxEvents
  /\ events' = Append(events, AuthEvent("TOKEN_REFRESHED", clientSession))
  /\ UNCHANGED <<session, user, clientSession, signInCall, signOutCall,
                 listenerCall, initCall, regVars, gradeVars, attVars,
                 pureVars, calcVars,
                 promoVars, tabVars>>

\* the onAuthStateChange listener, called with the oldest pending event, up
\* to its first await
onAuthStateChange ==
  /\ listenerCall.pc = "idle"
  /\ events # <<>>
  /\ events' = Tail(events)
  /\ LET ev == Head(events)
     IN IF ev.type = "SIGNED_IN" /\ ev.session # NoSession
        THEN /\ session' = ev.session
             /\ user' = user
             /\ listenerCall' = [pc |-> "fetch", cred |-> ev.session]
        ELSE IF ev.type = "SIGNED_OUT"
        THEN /\ user' = NoProfile
             /\ session' = NoSession
             /\ listenerCall' = listenerCall
        ELSE IF ev.type = "TOKEN_REFRESHED" /\ ev.session # NoSession
        THEN /\ session' = ev.session
             /\ user' = user
             /\ listenerCall' = listenerCall
        ELSE UNCHANGED <<session, user, listenerCall>>
  /\ UNCHANGED <<clientSession, signInCall, signOutCall, initCall, regVars,
                 gradeVars, attVars, pureVars, calcVars,
                 promoVars, tabVars>>

\* the listener after fetchUserProfile: setUser(profile), or setUser(null)
\* and setSession(null)
ListenerFetch(readOk, updateOk) ==
  /\ listenerCall.pc = "fetch"
  /\ LET r == fetchUserProfile(users, listenerCall.cred, readOk,
                               updateOk)
     IN /\ users' = r.users
        /\ IF r.profile # NoProfile
           THEN user' = r.profile /\ session' = session
           ELSE user' = NoProfile /\ session' = NoSession
  /\ listenerCall' = IdleAuth
  /\ UNCHANGED <<clientSession, events, signInCall, signOutCall, initCall,
                 registrations, authUsers, call, rej, succeeded, partial,
                 rejectedOk, statusBefore, gradeVars, attVars, pureVars,
                 calcVars,
                 promoVars, tabVars>>

\* initializeAuth up to fetchUserProfile: getSession, setSession
initializeAuth(ok) ==
  /\ initCall.pc = "start"
  /\ IF ~ok
     THEN /\ initCall' = [initCall EXCEPT !.pc = "done"]
          /\ UNCHANGED <<session, user>>
     ELSE IF clientSession # NoSession
     THEN /\ session' = clientSession
          /\ user' = user
          /\ initCall' = [pc |-> "fetch", cred |-> clientSession]
     ELSE /\ session' = NoSession
          /\ user' = NoProfile
          /\ initCall' = [initCall EXCEPT !.pc = "done"]
  /\ UNCHANGED <<clientSession, events, signInCall, signOutCall, listenerCall,
                 regVars, gradeVars, attVars, pureVars, calcVars,
                 promoVars, tabVars>>

\* initializeAuth after fetchUserProfile: setUser(profile), or
\* setSession(null) and supabase.auth.signOut()
InitFetch(readOk, updateOk) ==
  /\ initCall.pc = "fetch"
  /\ LET r == fetchUserProfile(users, initCall.cred, readOk,
                               updateOk)
     IN /\ users' = r.users
        /\ IF r.profile # NoProfile
           THEN /\ user' = r.profile
                /\ UNCHANGED <<session, clientSession, events>>
           ELSE /\ Len(events) < MaxEvents
                /\ user' = user
                /\ session' = NoSession
                /\ ClientSignOut
  /\ initCall' = [pc |-> "done", cred |-> "none"]
  /\ UNCHANGED <<signInCall, signOutCall, listenerCall, registrations,
                 authUsers, call, rej, succeeded, partial, rejectedOk,
                 statusBefore, gradeVars, attVars, pureVars, calcVars,
                 promoVars, tabVars>>

\* the tab is reloaded: the provider mounts again with its initial state
Reload ==
  /\ initCall.pc = "done"
  /\ signInCall.pc = "idle"
  /\ signOutCall.pc = "idle"
  /\ listenerCall.pc = "idle"
  /\ session' = NoSession
  /\ user' = NoProfile
  /\ events' = <<>>
  /\ initCall' = [pc |-> "start", cred |-> "none"]
  /\ UNCHANGED <<clientSession, signInCall, signOutCall, listenerCall,
                 regVars, gradeVars, attVars, pureVars, calcVars,
                 promoVars, tabVars>>

AuthInit ==
  /\ session = NoSession
  /\ user = NoProfile
  /\ clientSession = NoSession
  /\ events = <<>>
  /\ signInCall = IdleAuth
  /\ signOutCall = IdleAuth
  /\ listenerCall = IdleAuth
  /\ initCall = [pc |-> "start", cred |-> "none"]

\* the listener's SIGNED_IN branch in a tab that shows the Attendance page,
\* when the account signed in (from another tab of the browser) is a
\* parent's: setUser(profile); the route asks for no role and the page
\* stays mounted
SwitchUser(s) ==
  /\ s \notin switched
  /\ att[s].pc = "idle"
  /\ switched' = switched \cup {s}
  /\ UNCHANGED <<regVars, gradeVars, attVars, pureVars, calcVars, promoVars,
                 authVars>>

TabInit == switched = {}

MoreInit == CalcInit /\ PromoInit /\ AuthInit /\ TabInit

GradeInit ==
  /\ grades = {}
  /\ auditLogs = <<>>
  /\ nextGid = 1
  /\ gsave = [t \in Teachers |-> IdleSave]
  /\ saves = [k \in GradeKeys |-> 0]
  /\ raced = FALSE

Init == RegInit /\ GradeInit /\ AttInit /\ PureInit /\ MoreInit

RegNext ==
  \/ \E e \in Emails, available \in BOOLEAN : Register(e, available)
  \/ \E e \in Emails, o \in SignUpOutcomes, ok \in BOOLEAN :
       AdminCreateUser(e, o, ok)
  \/ \E r \in RegIds : BeginReview(r)
  \/ \E a \in Admins, r \in RegIds : ApproveStart(a, r)
  \/ \E a \in Admins, o \in SignUpOutcomes : ApproveSignUp(a, o)
  \/ \E a \in Admins : ApproveRevert(a)
  \/ \E a \in Admins, ok \in BOOLEAN : ApproveProfile(a, ok)
  \/ \E a \in Admins : ApproveReturn(a)
  \/ \E r \in RegIds, reason \in Reasons : Reject(r, reason)

RegSpec == Init /\ [][RegNext]_vars

GradeNext ==
  \/ \E t \in Teachers, q \in Quarters, items \in ItemSeqs :
       GradeSaveStart(t, q, items)
  \/ \E t \in Teachers : GradeCheck(t)
  \/ \E t \in Teachers : GradeWrite(t)
  \/ \E t \in Teachers : GradeAudit(t)
  \/ \E q \in Quarters, items \in ItemSeqs : UtilSaveClassGrades(q, items)

GradeSpec == Init /\ [][GradeNext]_vars

AttNext ==
  \/ \E s \in Sessions, p \in Pupils, d \in {Today},
        st \in RawStatuses, now \in ClockTimes :
       MarkAttendance(s, p, d, st, now)
  \/ \E s \in Sessions, ok \in BOOLEAN : MarkUpsert(s, ok)
  \/ \E s \in Sessions, ok \in BOOLEAN : MarkAudit(s, ok)
  \/ \E s \in Sessions : MarkNotify(s)
  \/ \E s \in Staff, p \in Pupils : OpenExcuseModal(s, p)
  \/ \E s \in Staff : CloseExcuseModal(s)
  \/ \E s \in Staff, d \in {Today}, reason \in ExcuseReasons :
       HandleExcuseAbsence(s, d, reason)
  \/ \E s \in Staff, ok \in BOOLEAN : ExcuseUpsert(s, ok)
  \/ \E s \in Staff, ok \in BOOLEAN : ExcuseAudit(s, ok)

AttSpec == Init /\ [][AttNext]_vars

\* the same page used by one teacher for one pupil, with the date filter moved
ExcuseNext ==
  \/ \E p \in {"p1"}, d \in Dates, st \in RawStatuses, now \in ClockTimes :
       MarkAttendance("t1", p, d, st, now)
  \/ \E ok \in BOOLEAN : MarkUpsert("t1", ok)
  \/ \E ok \in BOOLEAN : MarkAudit("t1", ok)
  \/ MarkNotify("t1")
  \/ \E p \in {"p1"} : OpenExcuseModal("t1", p)
  \/ CloseExcuseModal("t1")
  \/ \E d \in Dates, reason \in ExcuseReasons :
       HandleExcuseAbsence("t1", d, reason)
  \/ \E ok \in BOOLEAN : ExcuseUpsert("t1", ok)
  \/ \E ok \in BOOLEAN : ExcuseAudit("t1", ok)

ExcuseSpec == Init /\ [][ExcuseNext]_vars

\* grade entry with values on both sides of the 60..100 range
EntryNext ==
  \/ \E t \in Teachers, q \in Quarters, items \in EntrySeqs :
       GradeSaveStart(t, q, items)
  \/ \E t \in Teachers : GradeCheck(t)
  \/ \E t \in Teachers : GradeWrite(t)
  \/ \E t \in Teachers : GradeAudit(t)
  \/ \E q \in Quarters, items \in EntrySeqs : UtilSaveClassGrades(q, items)

EntrySpec == Init /\ [][EntryNext]_vars

LateInit ==
  /\ RegInit /\ GradeInit /\ AttInit /\ MoreInit
  /\ lateIn \in LateTimes \X LateTimes
  /\ lateOut = [page |-> <<>>, util |-> <<>>]
  /\ avgIn = [k \in AllQuarters \X AvgSubjects |-> Null]
  /\ avgOut = <<>>

LateNext ==
  \/ PageIsLate
  \/ UtilIsLate

LateSpec == LateInit /\ [][LateNext]_vars

AvgInit ==
  /\ RegInit /\ GradeInit /\ AttInit /\ MoreInit
  /\ lateIn = <<NoTime, NoTime>>
  /\ lateOut = [page |-> <<>>, util |-> <<>>]
  /\ avgIn \in GradeSheets
  /\ avgOut = <<>>

AvgNext ==
  \/ CalculateClassAverages

AvgSpec == AvgInit /\ [][AvgNext]_vars

\* ------------------------------------------------------- attendance: claims
AttAudit ==
  SelectSeq(auditLogs,
            LAMBDA e : e.action \in {"mark_attendance", "excuse_absence"})

\* C11: at any time there is at most one attendance record per
\* (pupil, subject, date); marks and excuses of a key overwrite its record.
C11_OneAttendancePerKey ==
  \A r1, r2 \in attendance : r1.key = r2.key => r1 = r2

\* a key marked absent and then excused: two writes, one record
C11_Witness ==
  /\ attWrites = 2
  /\ \E r \in attendance : attendance = {r} /\ r.status = "excused"

\* a mark whose upsert the store applies in this step
MarkApplies(s) ==
  /\ att[s].op = "mark"
  /\ att[s].pc = "upsert"
  /\ att'[s].pc = "audit"

\* C12: when marks of one key run concurrently, each upsert the store applies
\* succeeds whatever the key holds, and right after it the key's single record
\* carries the status, time-in and marker of that write alone; no other
\* record changes.
C12_LastMarkWins ==
  [][\A s \in Sessions :
       MarkApplies(s) =>
         LET d == att[s].data
         IN /\ \E r \in attendance' :
                 /\ AttRowsFor(attendance', d.key) = {r}
                 /\ r.status = d.status
                 /\ r.time_in = d.time_in
                 /\ r.teacher_id = d.teacher_id
            /\ \A r \in attendance \cup attendance' :
                 r.key # d.key => (r \in attendance /\ r \in attendance')]_vars

\* two sessions marked the same key differently, both upserts were applied
\* while the other call was in progress
C12_Witness ==
  /\ att["t1"].op = "mark" /\ att["t1"].pc = "audit"
  /\ att["a1"].op = "mark" /\ att["a1"].pc = "audit"
  /\ att["t1"].data.key = att["a1"].data.key
  /\ att["t1"].data.status # att["a1"].data.status
  /\ Cardinality(attendance) = 1

\* minutes after midnight of a time of day
Minutes(t) == t[1] * 60 + t[2]

\* C13: a mark with raw status present, for a subject with a start time, is
\* stored as late exactly when its time-in is more than 15 minutes after the
\* start, and as present otherwise; a mark with raw status absent is stored
\* as absent with no time-in.
C13_PresentDerivedFromTime ==
  [][\A s \in Sessions :
       (MarkApplies(s) /\ StartTime(att[s].data.key[2]) # NoTime) =>
         \E r \in attendance' :
           /\ r.key = att[s].data.key
           /\ att[s].raw = "present" =>
                /\ r.time_in # NoTime
                /\ r.status =
                     IF Minutes(r.time_in) >
                          Minutes(StartTime(r.key[2])) + 15
                     THEN "late" ELSE "present"
           /\ att[s].raw = "absent" => (r.status = "absent"
                                        /\ r.time_in = NoTime)]_vars

\* one pupil stored as late at 08:16, the other as present at 08:15
C13_Witness ==
  \E r1, r2 \in attendance :
    /\ r1.status = "late" /\ r1.time_in = <<8, 16>>
    /\ r2.status = "present" /\ r2.time_in = <<8, 15>>

\* the actor may write attendance: a signed-in teacher or admin
Capable(s) ==
  UserOf(s) # NoUser /\ RoleOf(s) \in {"teacher", "admin"}

\* C15: a session with no signed-in user, or of a parent, never has a mark in
\* progress, and the step that answers it with the permission error leaves
\* the attendance records, the audit log and the notifications as they were.
C15_MarkNeedsCapability ==
  [][/\ \A s \in Sessions : ~Capable(s) => att'[s] = IdleAtt
     /\ (toast' = "permission" /\ toast # "permission")
          => UNCHANGED <<attendance, auditLogs, notifications>>]_vars

\* a mark was refused for lack of permission while records exist
C15_Witness ==
  /\ toast = "permission"
  /\ attendance # {}

\* an excuse whose upsert is answered in this step
ExcuseAnswered(s) ==
  /\ att[s].op = "excuse"
  /\ att[s].pc = "upsert"
  /\ att'[s].pc # "upsert"

\* C16: an excuse for a key without a record fails and creates nothing; for a
\* key with a record, an applied excuse leaves that record excused with the
\* given non-empty reason.
C16_ExcuseRequiresRecord ==
  [][\A s \in Staff :
       ExcuseAnswered(s) =>
         LET d == att[s].data
         IN IF AttRowsFor(attendance, d.key) = {}
            THEN attendance' = attendance /\ att'[s].pc = "idle"
            ELSE att'[s].pc = "audit" =>
                   \E r \in attendance' :
                     /\ AttRowsFor(attendance', d.key) = {r}
                     /\ r.status = "excused"
                     /\ r.excuse_reason = d.excuse_reason
                     /\ Trim(r.excuse_reason) # <<>>]_vars

\* a mark that has passed its upsert and ends in this step
MarkReturns(s) ==
  /\ att[s].op = "mark"
  /\ att[s].pc \in {"audit", "notify"}
  /\ att'[s] = IdleAtt

AbsenceAlert(p) ==
  [recipient_id |-> ParentOf(p), type |-> "attendance_alert", pupil |-> p]

\* C17: notifications change only when a successful mark returns; a mark
\* stored as absent has by then added exactly one alert addressed to the
\* pupil's guardian if one is linked and none otherwise, and a mark stored as
\* present or late has added none.
C17_AbsenceNotifiesGuardian ==
  [][/\ notifications' # notifications =>
          \E s \in Sessions : MarkReturns(s)
     /\ \A s \in Sessions :
          MarkReturns(s) =>
            LET p == att[s].data.key[1]
            IN notifications' =
                 IF att[s].data.status = "absent" /\ ParentOf(p) # NoParent
                 THEN Append(notifications, AbsenceAlert(p))
                 ELSE notifications]_vars

\* both pupils were marked absent; only the one with a guardian has an alert
C17_Witness ==
  /\ \A s \in Sessions : att[s].pc = "idle"
  /\ \A p \in Pupils : \E r \in attendance : r.key[1] = p /\ r.status = "absent"
  /\ notifications = <<AbsenceAlert("p1")>>

AttQuiet == \A s \in Sessions : att[s].pc \notin {"audit"}

\* C18 as stated: once no attendance call is between its write and its audit
\* insert, the log has exactly one attendance entry per applied write.
C18_AuditEqualsWrites ==
  AttQuiet => Len(AttAudit) = attWrites

\* C18: the attendance entries of the log, the audit inserts the store
\* refused and the writes still before their audit insert add up to the
\* applied attendance writes; a refused or failed call adds none.
C18_AuditPerAcceptedInsert ==
  Len(AttAudit) + auditLost
    + Cardinality({s \in Sessions : att[s].pc = "audit"}) = attWrites

\* a mark and an excuse were written; the audit insert of one was refused
C18_Witness ==
  /\ \A s \in Sessions : att[s].pc = "idle"
  /\ attWrites = 2
  /\ auditLost = 1
  /\ Len(AttAudit) = 1
  /\ \E r \in attendance : r.status = "excused"

\* ----------------------------------------------------- pure functions: claims
\* C14: each lateness function answers true exactly when both times are given
\* and the time-in, in minutes of the day, is greater than the class start
\* plus 15 minutes.
C14_LateAfterFifteenMinutes ==
  \A out \in {lateOut.page, lateOut.util} :
    out # <<>> =>
      out[1] = (/\ lateIn[1] # NoTime
                /\ lateIn[2] # NoTime
                /\ Minutes(lateIn[1]) > Minutes(lateIn[2]) + 15)

\* 08:15 for a class starting at 08:00: both functions answer not late
C14_Witness ==
  /\ lateIn = <<<<8, 15>>, <<8, 0>>>>
  /\ lateOut = [page |-> <<FALSE>>, util |-> <<FALSE>>]

\* C19: every final grade stored through grade entry lies in 60..100; a
\* value outside the range is refused and never persisted.
C19_StoredGradesInRange ==
  \A g \in grades : gradeSchema(g.final_grade)

\* C20: a quarter's average is null exactly when the pupil has no grade in
\* it; the final average is null exactly when the pupil has no grade in any
\* quarter, and otherwise it is the mean of the non-null quarterly averages,
\* to the hundredth.
C20_FinalAverageOfGradedQuarters ==
  avgOut # <<>> =>
    LET row == avgOut[1]
        qs == {q \in AllQuarters : row.q_avg[q] # Null}
        sum == SumAvgs(avgIn, qs)
    IN /\ \A q \in AllQuarters :
            (row.q_avg[q] = Null) <=>
              (\A s \in AvgSubjects : avgIn[<<q, s>>] = Null)
       /\ (row.final_avg = Null) <=> (qs = {})
       /\ row.final_avg # Null =>
            /\ 2 * (row.final_avg * Cardinality(qs) - sum) <= Cardinality(qs)
            /\ 2 * (sum - row.final_avg * Cardinality(qs)) <= Cardinality(qs)

RateInit ==
  /\ RegInit /\ GradeInit /\ AttInit /\ PureInit /\ PromoInit /\ AuthInit
  /\ TabInit
  /\ rateIn \in RateCounts \X RateCounts \X RateCounts \X RateCounts
  /\ rateOut = <<>>
  /\ bandIn = 0
  /\ bandOut = [f \in Classifiers |-> <<>>]

RateNext ==
  \/ AttendanceRate

RateSpec == RateInit /\ [][RateNext]_vars

BandInit ==
  /\ RegInit /\ GradeInit /\ AttInit /\ PureInit /\ PromoInit /\ AuthInit
  /\ TabInit
  /\ rateIn = <<0, 0, 0, 0>>
  /\ rateOut = <<>>
  /\ bandIn \in ScoreValues
  /\ bandOut = [f \in Classifiers |-> <<>>]

BandNext ==
  \/ LetterGrade
  \/ GradeDescription
  \/ GradeColor
  \/ GradesColor
  \/ GradesLabel
  \/ ChildrenColor
  \/ ChildrenLabel

BandSpec == BandInit /\ [][BandNext]_vars

\* the source buttons pressed: a grade with no pupils and the pupils' grade
PromoSources == {1, 5}

PromoNext ==
  \/ \E g \in PromoSources : handlePromotionGradeSelect(g)
  \/ \E g \in 0..7 : setPromotionToGrade(g)
  \/ \E text \in SectionTexts : setPromotionToSection(text)
  \/ \E p \in Pupils : handlePupilSelectionToggle(p)
  \/ SelectAll
  \/ handleCloseModal
  \/ \E refused \in SUBSET Pupils : handlePromotePupils(refused)
  \/ \E ok \in BOOLEAN : PromoteAudit(ok)
  \/ \E to \in {6, 7}, okUpdate, okAudit \in BOOLEAN :
       promoteStudent("p1", pupilRows["p1"].grade_level, to, "B", okUpdate,
                      okAudit)

PromoSpec == Init /\ [][PromoNext]_vars

\* what the teacher of the one tab enters in a class table
BestEffortItems ==
  {<<[pupil |-> "p1", grade |-> 80]>>,
   <<[pupil |-> "p1", grade |-> 80], [pupil |-> "p2", grade |-> 90]>>}

\* grade save, promotion and attendance marking from one signed-in tab, a
\* handler starting when no other is running, the store refusing audit
\* inserts as it likes
BestEffortNext ==
  \/ \E items \in BestEffortItems :
       TabQuiet /\ GradeSaveStart("t1", 1, items)
  \/ GradeCheck("t1")
  \/ GradeWrite("t1")
  \/ GradeAudit("t1")
  \/ GradeAuditRefused("t1")
  \/ TabQuiet /\ handlePromotionGradeSelect(5)
  \/ TabQuiet /\ setPromotionToGrade(6)
  \/ TabQuiet /\ setPromotionToSection("B")
  \/ TabQuiet /\ handlePupilSelectionToggle("p2")
  \/ TabQuiet /\ handlePromotePupils({})
  \/ \E ok \in BOOLEAN : PromoteAudit(ok)
  \/ \E okAudit \in BOOLEAN :
       TabQuiet /\ promoteStudent("p1", pupilRows["p1"].grade_level, 6, "B",
                                  TRUE, okAudit)
  \/ \E status \in RawStatuses :
       TabQuiet /\ MarkAttendance("t1", "p1", Today, status, <<8, 15>>)
  \/ MarkUpsert("t1", TRUE)
  \/ \E ok \in BOOLEAN : MarkAudit("t1", ok)
  \/ MarkNotify("t1")

BestEffortSpec == Init /\ [][BestEffortNext]_vars

\* the tab of the registrant of one email, and one admin approving
\* registrations and creating users
AuthNext ==
  \/ Register("e1", TRUE)
  \/ \E ok \in BOOLEAN : AdminCreateUser("e1", "user", ok)
  \/ \E r \in RegIds : ApproveStart("a1", r)
  \/ \E o \in SignUpOutcomes : ApproveSignUp("a1", o)
  \/ ApproveRevert("a1")
  \/ \E ok \in BOOLEAN : ApproveProfile("a1", ok)
  \/ ApproveReturn("a1")
  \/ \E ok \in BOOLEAN : signIn("e1", ok)
  \/ \E readOk, updateOk \in BOOLEAN : SignInFetch(readOk, updateOk)
  \/ \E ok \in BOOLEAN : SignInInsert(ok)
  \/ \E fetchOk, updateOk \in BOOLEAN : SignInDuplicate(fetchOk, updateOk)
  \/ SignInAbort
  \/ \E ok \in BOOLEAN : signOut(ok)
  \/ SignOutClear
  \/ TokenRefreshed
  \/ onAuthStateChange
  \/ \E readOk, updateOk \in BOOLEAN : ListenerFetch(readOk, updateOk)
  \/ \E ok \in BOOLEAN : initializeAuth(ok)
  \/ \E readOk, updateOk \in BOOLEAN : InitFetch(readOk, updateOk)
  \/ Reload

AuthSpec == Init /\ [][AuthNext]_vars

\* the Attendance page of teacher t1, whose user can be replaced, and the
\* pages of a parent and of a tab with no user
ActorNext ==
  \/ \E s \in {"t1", "g1", "anon"}, st \in RawStatuses :
       MarkAttendance(s, "p1", Today, st, <<8, 15>>)
  \/ \E ok \in BOOLEAN : MarkUpsert("t1", ok)
  \/ \E ok \in BOOLEAN : MarkAudit("t1", ok)
  \/ MarkNotify("t1")
  \/ OpenExcuseModal("t1", "p1")
  \/ CloseExcuseModal("t1")
  \/ \E reason \in ExcuseReasons : HandleExcuseAbsence("t1", Today, reason)
  \/ \E ok \in BOOLEAN : ExcuseUpsert("t1", ok)
  \/ \E ok \in BOOLEAN : ExcuseAudit("t1", ok)
  \/ SwitchUser("t1")

ActorSpec == Init /\ [][ActorNext]_vars

\* registrations reviewed and approved by two admins, identity creation
\* failing as it likes
RevertNext ==
  \/ \E e \in Emails : Register(e, TRUE)
  \/ \E r \in RegIds : BeginReview(r)
  \/ \E a \in Admins, r \in RegIds : ApproveStartNoted(a, r)
  \/ \E a \in Admins, o \in SignUpOutcomes : ApproveSignUp(a, o)
  \/ \E a \in Admins : ApproveRevert(a)
  \/ \E a \in Admins, ok \in BOOLEAN : ApproveProfile(a, ok)
  \/ \E a \in Admins : ApproveReturn(a)

RevertSpec == Init /\ [][RevertNext]_vars

\* ------------------------------------------------- rate and bands: claims
\* C21: the attendance rate is 0 when there are no records; otherwise it is
\* (present + late) * 100 / total to the nearest hundredth; it always lies
\* in 0..100, and it is 100 for 18 present, 2 late and nobody absent.
C21_AttendanceRateRounded ==
  rateOut # <<>> =>
    LET total == rateIn[1] + rateIn[2] + rateIn[3] + rateIn[4]
        attended == rateIn[1] + rateIn[2]
        rate == rateOut[1]
    IN /\ total = 0 => rate = 0
       /\ total > 0 => /\ 2 * (rate * total - attended * 10000) <= total
                       /\ 2 * (attended * 10000 - rate * total) <= total
       /\ rate \in 0..10000
       /\ rateIn = <<18, 2, 0, 0>> => rate = 10000

\* attendanceRate(18, 2, 0, 0) has answered 100.00
C21_Witness ==
  /\ rateIn = <<18, 2, 0, 0>>
  /\ rateOut = <<10000>>

\* the band a score belongs to, with closed-open boundaries
ExpectedBand(s) ==
  IF s >= 9000 THEN "Outstanding"
  ELSE IF 8500 <= s /\ s < 9000 THEN "Very Satisfactory"
  ELSE IF 8000 <= s /\ s < 8500 THEN "Satisfactory"
  ELSE IF 7500 <= s /\ s < 8000 THEN "Fairly Satisfactory"
  ELSE "Did Not Meet Expectations"

\* the band a classifier's answer (letter, label or colour) stands for
BandOfAnswer(x) ==
  CASE x \in {"A", "Outstanding", "text-green-600"} -> "Outstanding"
    [] x \in {"B", "Very Satisfactory", "text-blue-600"} -> "Very Satisfactory"
    [] x \in {"C", "Satisfactory", "text-yellow-600"} -> "Satisfactory"
    [] x \in {"D", "Fairly Satisfactory", "text-orange-600"}
         -> "Fairly Satisfactory"
    [] x \in {"F", "Did Not Meet Expectations", "text-red-600"}
         -> "Did Not Meet Expectations"
    [] OTHER -> "none"

\* C22: every classifier (letter, label and colour of the utility module,
\* colour and label of the Grades and MyChildren pages) puts a score of
\* 0..100 in the band of its closed-open interval, so all of them agree.
C22_ClassifiersAgreeOnBand ==
  \A f \in Classifiers :
    bandOut[f] # <<>> => BandOfAnswer(bandOut[f][1]) = ExpectedBand(bandIn)

\* all seven classifiers have answered for the boundary score 90.00
C22_Witness ==
  /\ bandIn = 9000
  /\ \A f \in Classifiers : bandOut[f] # <<>>
  /\ bandOut["letter"] = <<"A">>

\* --------------------------------------------------------- promotion: claims
\* C23: no pupil has a stored grade level outside 1..6, and the pupils of a
\* promotion to Graduated that succeeded are archived.
C23_GraduationArchives ==
  /\ \A p \in Pupils : pupilRows[p].grade_level \in GradeLevels
  /\ (promo.result = "success" /\ promo.to = Graduated)
       => \A p \in promo.ids : pupilRows[p].archived

\* C24: when the store refuses the update of some of the selected pupils,
\* every other selected pupil still gets the destination grade.
C24_FailureIsolatedPerPupil ==
  [][(promo.pc = "idle" /\ promo' # promo /\ promo'.refused # {})
       => \A p \in promo'.ids \ promo'.refused :
            pupilRows'[p].grade_level = promo'.to]_vars

\* C28: every pupil changed by the dialog's promote ends in a grade level
\* greater than the one it had.
C28_PromotionRaisesGrade ==
  [][(promo.pc = "idle" /\ promo'.pc = "audit")
       => \A p \in promo'.ids :
            pupilRows'[p].grade_level > pupilRows[p].grade_level]_vars

\* ------------------------------------------------------ audit refusal: claims
\* C25: a step in which the store refuses an audit insert changes no data
\* (the write it documents stays), and the handler goes on as if the insert
\* had been accepted: the grade save and the promotion take the next item or
\* end in success, the attendance call shows its success toast, and the
\* utility promoteStudent has applied its update.
C25_AuditFailureNotFatal ==
  [][/\ \A t \in Teachers :
          (gsave[t].pc = "audit" /\ gsave'[t] # gsave[t]
             /\ auditLogs' = auditLogs)
            => /\ grades' = grades
               /\ IF Len(gsave[t].todo) = 1
                  THEN gsave'[t].pc = "done" /\ gsave'[t].result = "saved"
                  ELSE gsave'[t].pc = "check"
                         /\ gsave'[t].todo = Tail(gsave[t].todo)
     /\ (promo.pc = "audit" /\ promo' # promo /\ auditLogs' = auditLogs)
          => /\ pupilRows' = pupilRows
             /\ IF Len(promo.todo) = 1
                THEN promo'.pc = "idle" /\ promo'.result = "success"
                ELSE promo'.pc = "audit" /\ promo'.todo = Tail(promo.todo)
     /\ \A s \in Sessions :
          (att[s].pc = "audit" /\ att'[s].pc # "audit"
             /\ auditLogs' = auditLogs)
            => /\ attendance' = attendance
               /\ toast' = "ok"
     /\ (promo.pc = "idle" /\ promo' = promo
           /\ refusedAudits' = refusedAudits + 1 /\ gsave' = gsave)
          => pupilRows'["p1"].grade_level = 6]_vars

\* a promotion, a grade save and an attendance mark have all ended in
\* success with every one of their audit inserts refused
C25_Witness ==
  /\ auditLogs = <<>>
  /\ promo.result = "success" /\ pupilRows["p1"].grade_level = 6
  /\ gsave["t1"].result = "saved" /\ grades # {}
  /\ attendance # {} /\ toast = "ok" /\ auditLost = 1
  /\ refusedAudits = 2

\* -------------------------------------------------------------- auth: claims
\* C26: the Account of an email that was registered has the role given at
\* registration (teacher or parent), never admin.
C26_RegistrantNeverAdmin ==
  \A u \in users :
    (\E r \in 1..Len(registrations) : registrations[r].email = u.email)
      => u.role = RoleFor(u.email)

\* C27: in the AuthProvider state, a user implies a session.
C27_UserImpliesSession ==
  user # NoProfile => session # NoSession

\* ------------------------------------------------------ registration: revert
\* C30: an approve call that fails at identity creation leaves the
\* registration with the status it had when the call began.
C30_FailedApproveKeepsStatus ==
  [][\A a \in Admins :
       (call[a].pc = "revert" /\ call'[a].pc = "done")
         => StatusIn(registrations', call[a].reg) = statusBefore[a]]_vars

\* ------------------------------------------------------- attendance: actors
\* C29: every attendance record was written by a teacher or an admin: no
\* record carries a parent, or nobody, as the actor of its last write.
C29_NoWriteByParentOrAnonymous ==
  \A r \in attendance : RoleOfUser(r.teacher_id) \in {"teacher", "admin"}


====
